---- MODULE Spec2Model ----
(***************************************************************************)
(* Model of the ICP stable-memory store of elizaOS/examples                *)
(* (src/icp/src/eliza_icp_backend/src/storage.rs): the Collection Store    *)
(* (IcpMemoryStorage), the Vector Index (IcpVectorStorage) and the         *)
(* Database Adapter (IcpDatabaseAdapter) built on the two.                 *)
(*                                                                         *)
(* Strings that the code takes apart (collection names, ids, storage keys) *)
(* are sequences of one-character strings.  JSON values (serde_json::Value)*)
(* are tagged tuples.  f32 values are integers: vector components are small*)
(* whole numbers and a similarity is a fixed-point number in units of      *)
(* 1/Scale.                                                                *)
(***************************************************************************)
EXTENDS Integers, Sequences, FiniteSets, TLC

VARIABLES
    DATA,        \* StableBTreeMap "collection:id" -> document      (durable)
    VECTORS,     \* StableBTreeMap id -> vector                     (durable)
    CACHE,       \* HashMap<String, Value>                          (heap)
    VECTOR_DIM,  \* configured vector dimension                     (heap)
    ADAPTER,     \* the global adapter handle, None before creation (heap)
    COUNTER,     \* generate_uuid's call counter                    (heap)
    bridge,      \* an IcpElizaAdapter, None before its creation    (heap)
    handle,      \* the IcpDatabaseAdapter value the caller holds
    now,         \* ic_cdk::api::time() in milliseconds
    epoch,       \* number of process restarts so far
    AGENT_STATE,     \* lib.rs: Option<AgentState>                  (heap)
    INFERENCE_MODE,  \* lib.rs: how chat generates its response     (heap)
    running,     \* the synchronous call that is between two of its steps
    calls,       \* the chat calls suspended at their await
    last         \* the most recent call: its name, arguments and result

vars ==
    <<DATA, VECTORS, CACHE, VECTOR_DIM, ADAPTER, COUNTER, bridge, handle, now, epoch,
      AGENT_STATE, INFERENCE_MODE, running, calls, last>>

durable == <<DATA, VECTORS>>

(***************************************************************************)
(* Generic helpers                                                         *)
(***************************************************************************)
None == <<"None">>

Some(x) == <<"Some", x>>

Ok(x) == <<"Ok", x>>

Err(e) == <<"Err", e>>

Unit == <<"()">>

EmptyMap == [x \in {} |-> x]

Min(a, b) == IF a <= b THEN a ELSE b

Range(s) == {s[i] : i \in 1..Len(s)}

\* Vec::truncate / Iterator::take
Take(s, n) == SubSeq(s, 1, Min(n, Len(s)))

\* Iterator::skip
Skip(s, n) == SubSeq(s, Min(n, Len(s)) + 1, Len(s))

(***************************************************************************)
(* Characters and strings.  AsciiOrder lists the characters the model uses *)
(* in increasing byte value, which is the order `String::cmp` compares by. *)
(***************************************************************************)
AsciiOrder ==
    <<"-", "1", "2", "3", "4", ":", "a", "b", "c", "e", "g", "h", "i", "m", "n",
      "o", "p", "r", "s", "t", "u", "x">>

CharCode(c) == CHOOSE i \in 1..Len(AsciiOrder) : AsciiOrder[i] = c

RECURSIVE StrLess(_, _)
\* a < b for Strings (lexicographic by byte)
StrLess(a, b) ==
    IF b = <<>> THEN FALSE
    ELSE IF a = <<>> THEN TRUE
    ELSE IF a[1] # b[1] THEN CharCode(a[1]) < CharCode(b[1])
    ELSE StrLess(Tail(a), Tail(b))

\* str::starts_with
starts_with(s, prefix) ==
    /\ Len(prefix) <= Len(s)
    /\ SubSeq(s, 1, Len(prefix)) = prefix

\* str::split_once(':'): None, or the parts before and after the first ':'
split_once(s) ==
    IF \E i \in 1..Len(s) : s[i] = ":"
    THEN LET i == CHOOSE j \in 1..Len(s) :
                      s[j] = ":" /\ \A h \in 1..(j - 1) : s[h] # ":"
         IN  Some(<<SubSeq(s, 1, i - 1), SubSeq(s, i + 1, Len(s))>>)
    ELSE None

RECURSIVE SortedKeys(_)
\* the keys of a StableBTreeMap in iteration order (ascending)
SortedKeys(S) ==
    IF S = {} THEN <<>>
    ELSE LET lo == CHOOSE k \in S : \A o \in S \ {k} : StrLess(k, o)
         IN  <<lo>> \o SortedKeys(S \ {lo})

(***************************************************************************)
(* serde_json::Value                                                       *)
(***************************************************************************)
JNull == <<"null">>

JBool(b) == <<"bool", b>>

JNum(n) == <<"num", n>>

JStr(s) == <<"str", s>>

JArr(s) == <<"arr", s>>

\* f is a function from field names to values
JObj(f) == <<"obj", f>>

is_object(v) == v[1] = "obj"

\* Value::get(field): None unless v is an object that has the field
get_field(v, f) ==
    IF is_object(v) /\ f \in DOMAIN v[2] THEN Some(v[2][f]) ELSE None

as_str(o) == IF o # None /\ o[2][1] = "str" THEN Some(o[2][2]) ELSE None

as_i64(o) == IF o # None /\ o[2][1] = "num" THEN Some(o[2][2]) ELSE None

as_array(o) == IF o # None /\ o[2][1] = "arr" THEN Some(o[2][2]) ELSE None

unwrap_or(o, d) == IF o = None THEN d ELSE o[2]

\* Map::insert on an object
obj_insert(v, f, x) ==
    JObj([g \in DOMAIN v[2] \cup {f} |-> IF g = f THEN x ELSE v[2][g]])

\* the field names of the documents, in the order a serde_json Map keeps them
FieldOrder ==
    <<"agentId", "bio", "content", "createdAt", "embedding", "entityId",
      "expiresAt", "id", "metadata", "name", "participants", "roomId",
      "similarity", "system", "text", "type", "unique", "value", "worldId">>

(***************************************************************************)
(* Storable wrappers: what a StableBTreeMap writes (to_bytes) and reads    *)
(* back (from_bytes).  The bytes of a JSON text are modelled as its tokens.*)
(***************************************************************************)
Punct(c) == <<"p", c>>

RECURSIVE to_json(_)
RECURSIVE to_json_elems(_, _)
RECURSIVE to_json_members(_, _)
\* serde_json::to_vec
to_json(v) ==
    CASE v[1] = "null" -> << <<"l", "null">> >>
      [] v[1] = "bool" -> << <<"l", IF v[2] THEN "true" ELSE "false">> >>
      [] v[1] = "num"  -> << <<"n", v[2]>> >>
      [] v[1] = "str"  -> << <<"s", v[2]>> >>
      [] v[1] = "arr"  -> <<Punct("[")>> \o to_json_elems(v[2], 1) \o <<Punct("]")>>
      [] v[1] = "obj"  ->
            <<Punct("{")>>
            \o to_json_members(v[2], SelectSeq(FieldOrder, LAMBDA f : f \in DOMAIN v[2]))
            \o <<Punct("}")>>

to_json_elems(s, i) ==
    IF i > Len(s) THEN <<>>
    ELSE (IF i > 1 THEN <<Punct(",")>> ELSE <<>>)
         \o to_json(s[i]) \o to_json_elems(s, i + 1)

to_json_members(f, names) ==
    IF names = <<>> THEN <<>>
    ELSE << <<"k", Head(names)>>, Punct(":") >> \o to_json(f[Head(names)])
         \o (IF Len(names) > 1 THEN <<Punct(",")>> ELSE <<>>)
         \o to_json_members(f, Tail(names))

ParseFail == [ok |-> FALSE, val |-> JNull, next |-> 0]

IsPunct(toks, i, c) == i <= Len(toks) /\ toks[i][1] = "p" /\ toks[i][2] = c

RECURSIVE parse_value(_, _)
RECURSIVE parse_elems(_, _, _)
RECURSIVE parse_members(_, _, _)
\* one JSON value starting at token i: [ok, val, next]
parse_value(toks, i) ==
    IF i > Len(toks) THEN ParseFail
    ELSE LET t == toks[i] IN
         CASE t[1] = "l" ->
                [ok |-> TRUE,
                 val |-> IF t[2] = "null" THEN JNull ELSE JBool(t[2] = "true"),
                 next |-> i + 1]
           [] t[1] = "n" -> [ok |-> TRUE, val |-> JNum(t[2]), next |-> i + 1]
           [] t[1] = "s" -> [ok |-> TRUE, val |-> JStr(t[2]), next |-> i + 1]
           [] t[1] = "p" /\ t[2] = "[" ->
                IF IsPunct(toks, i + 1, "]")
                THEN [ok |-> TRUE, val |-> JArr(<<>>), next |-> i + 2]
                ELSE parse_elems(toks, i + 1, <<>>)
           [] t[1] = "p" /\ t[2] = "{" ->
                IF IsPunct(toks, i + 1, "}")
                THEN [ok |-> TRUE, val |-> JObj(EmptyMap), next |-> i + 2]
                ELSE parse_members(toks, i + 1, EmptyMap)
           [] OTHER -> ParseFail

parse_elems(toks, i, acc) ==
    LET r == parse_value(toks, i) IN
    IF ~r.ok THEN ParseFail
    ELSE IF IsPunct(toks, r.next, ",")
         THEN parse_elems(toks, r.next + 1, Append(acc, r.val))
    ELSE IF IsPunct(toks, r.next, "]")
         THEN [ok |-> TRUE, val |-> JArr(Append(acc, r.val)), next |-> r.next + 1]
    ELSE ParseFail

parse_members(toks, i, acc) ==
    IF ~(i + 1 <= Len(toks) /\ toks[i][1] = "k" /\ IsPunct(toks, i + 1, ":"))
    THEN ParseFail
    ELSE LET r == parse_value(toks, i + 2)
             f == toks[i][2]
             acc2 == [g \in DOMAIN acc \cup {f} |-> IF g = f THEN r.val ELSE acc[g]]
         IN  IF ~r.ok THEN ParseFail
             ELSE IF IsPunct(toks, r.next, ",")
                  THEN parse_members(toks, r.next + 1, acc2)
             ELSE IF IsPunct(toks, r.next, "}")
                  THEN [ok |-> TRUE, val |-> JObj(acc2), next |-> r.next + 1]
             ELSE ParseFail

\* from_slice taking the text's last token for trailing input
from_slice_trailing(toks) ==
    LET r == parse_value(toks, 1)
    IN  IF r.ok /\ r.next = Len(toks) THEN Ok(r.val) ELSE Err("syntax")

\* serde_json::from_slice: the value, or an error when the text is no single value
from_slice(toks) ==
    LET r == parse_value(toks, 1)
    IN  IF r.ok /\ r.next = Len(toks) + 1 THEN Ok(r.val) ELSE Err("syntax")

StorableValue_to_bytes(v) == to_json(v)

\* unwrap_or(Value::Null)
StorableValue_from_bytes(bytes) ==
    LET r == from_slice(bytes) IN IF r[1] = "Ok" THEN r[2] ELSE JNull

\* String::as_bytes; the model's characters are ASCII, one byte each
StorableString_to_bytes(s) == s

\* String::from_utf8_lossy, which keeps valid UTF-8 as it is
StorableString_from_bytes(bytes) == bytes

\* f32::to_le_bytes of a whole number in two's complement
le_bytes(n) ==
    <<n % 256, (n \div 256) % 256, (n \div 65536) % 256, (n \div 16777216) % 256>>

from_le_bytes(b) ==
    b[1] + 256 * b[2] + 65536 * b[3]
    + 16777216 * (IF b[4] >= 128 THEN b[4] - 256 ELSE b[4])

RECURSIVE StorableVector_to_bytes(_)
StorableVector_to_bytes(v) ==
    IF v = <<>> THEN <<>> ELSE le_bytes(Head(v)) \o StorableVector_to_bytes(Tail(v))

RECURSIVE StorableVector_from_bytes(_)
\* chunks(4), keeping only the chunks of four bytes
StorableVector_from_bytes(bytes) ==
    IF Len(bytes) < 4 THEN <<>>
    ELSE <<from_le_bytes(SubSeq(bytes, 1, 4))>>
         \o StorableVector_from_bytes(SubSeq(bytes, 5, Len(bytes)))

(***************************************************************************)
(* StableBTreeMap: a function whose domain is the set of stored keys.  The *)
(* map keeps bytes; a stored value is kept here as what a later read       *)
(* decodes from the bytes the insert wrote.                                *)
(***************************************************************************)
map_put(m, k, v) == [x \in DOMAIN m \cup {k} |-> IF x = k THEN v ELSE m[x]]

map_remove(m, k) == [x \in DOMAIN m \ {k} |-> m[x]]

map_remove_all(m, ks) == [x \in DOMAIN m \ ks |-> m[x]]

DATA_insert(m, key, value) ==
    map_put(m, StorableString_from_bytes(StorableString_to_bytes(key)),
            StorableValue_from_bytes(StorableValue_to_bytes(value)))

VECTORS_insert(m, key, vector) ==
    map_put(m, StorableString_from_bytes(StorableString_to_bytes(key)),
            StorableVector_from_bytes(StorableVector_to_bytes(vector)))

map_get(m, k) == IF k \in DOMAIN m THEN Some(m[k]) ELSE None

\* the entries of a map in iteration order, as a sequence of keys
map_iter(m) == SortedKeys(DOMAIN m)

(***************************************************************************)
(* types.rs: COLLECTIONS                                                   *)
(***************************************************************************)
COLLECTIONS_AGENTS == <<"a", "g", "e", "n", "t", "s">>

COLLECTIONS_MEMORIES == <<"m", "e", "m", "o", "r", "i", "e", "s">>

COLLECTIONS_ROOMS == <<"r", "o", "o", "m", "s">>

COLLECTIONS_PARTICIPANTS ==
    <<"p", "a", "r", "t", "i", "c", "i", "p", "a", "n", "t", "s">>

COLLECTIONS_CACHE == <<"c", "a", "c", "h", "e">>

COLLECTIONS_ENTITIES == <<"e", "n", "t", "i", "t", "i", "e", "s">>

(***************************************************************************)
(* Closures.  A predicate `Fn(&Value) -> bool` is a tuple of the closure's *)
(* name and the values it captured; call evaluates it on a document.       *)
(***************************************************************************)
\* Option == Some(string)
opt_str_is(o, s) == as_str(o) = Some(s)

\* a table filter that lets every document through
table_matches_any(m, table_name) == TRUE

\* the filter on metadata.type that get_memories and search_memories share
table_matches(m, table_name) ==
    LET metadata == get_field(m, "metadata")
    IN  metadata # None => opt_str_is(get_field(metadata[2], "type"), table_name)

\* an optional equality filter on a string field
field_matches(m, field, filter) ==
    filter # None => opt_str_is(get_field(m, field), filter[2])

\* get_memories' closure, capturing the query q
memories_filter(q, m) ==
    /\ field_matches(m, "entityId", q.entity_id)
    /\ field_matches(m, "agentId", q.agent_id)
    /\ field_matches(m, "roomId", q.room_id)
    /\ field_matches(m, "worldId", q.world_id)
    /\ table_matches(m, q.table_name)

\* delete_room's closures, capturing room_id
room_id_is(room_id, doc) == opt_str_is(get_field(doc, "roomId"), room_id)

call(closure, v) ==
    CASE closure[1] = "any"             -> TRUE
      [] closure[1] = "none"            -> FALSE
      [] closure[1] = "is_object"       -> is_object(v)
      [] closure[1] = "has_name"        -> get_field(v, "name") # None
      [] closure[1] = "room_id_is"      -> room_id_is(closure[2], v)
      [] closure[1] = "memories_filter" -> memories_filter(closure[2], v)

(***************************************************************************)
(* IcpMemoryStorage.  Each operation that writes is an operator from the   *)
(* DATA map (and its arguments) to the new DATA map; each that reads is an *)
(* operator from the DATA map to its result.                               *)
(***************************************************************************)
\* format!("{}:{}", collection, id)
\* make_key that leaves out the separator
make_key_unseparated(collection, id) == collection \o id

make_key(collection, id) == collection \o <<":">> \o id

parse_key(key) == split_once(key)

IcpMemoryStorage_get(data, collection, id) ==
    map_get(data, make_key(collection, id))

\* the keys of the collection's entries, in iteration order
collection_keys(data, collection) ==
    LET prefix == collection \o <<":">>
        keys == map_iter(data)
    IN  SelectSeq(keys, LAMBDA k : starts_with(k, prefix))

IcpMemoryStorage_get_all(data, collection) ==
    LET keys == collection_keys(data, collection)
    IN  [i \in 1..Len(keys) |-> data[keys[i]]]

\* get_where that does not test the key's prefix
IcpMemoryStorage_get_where_any_collection(data, collection, predicate) ==
    LET keys == SelectSeq(map_iter(data), LAMBDA k : call(predicate, data[k]))
    IN  [i \in 1..Len(keys) |-> data[keys[i]]]

IcpMemoryStorage_get_where(data, collection, predicate) ==
    LET keys == SelectSeq(collection_keys(data, collection),
                          LAMBDA k : call(predicate, data[k]))
    IN  [i \in 1..Len(keys) |-> data[keys[i]]]

IcpMemoryStorage_set(data, collection, id, doc) ==
    DATA_insert(data, make_key(collection, id), doc)

\* the new map; the result is whether the key was there
IcpMemoryStorage_delete(data, collection, id) ==
    map_remove(data, make_key(collection, id))

\* the result of a delete that does not look at what remove returned
IcpMemoryStorage_delete_ret_always(data, collection, id) == TRUE

IcpMemoryStorage_delete_ret(data, collection, id) ==
    make_key(collection, id) \in DOMAIN data

RECURSIVE IcpMemoryStorage_delete_many(_, _, _)
IcpMemoryStorage_delete_many(data, collection, ids) ==
    IF ids = <<>> THEN data
    ELSE IcpMemoryStorage_delete_many(
             IcpMemoryStorage_delete(data, collection, Head(ids)),
             collection, Tail(ids))

\* delete_where that does not test the key's prefix
IcpMemoryStorage_delete_where_any_collection(data, collection, predicate) ==
    LET to_delete == SelectSeq(map_iter(data), LAMBDA k : call(predicate, data[k]))
    IN  map_remove_all(data, Range(to_delete))

IcpMemoryStorage_delete_where(data, collection, predicate) ==
    LET to_delete == SelectSeq(collection_keys(data, collection),
                               LAMBDA k : call(predicate, data[k]))
    IN  map_remove_all(data, Range(to_delete))

\* predicate is None or Some(closure)
IcpMemoryStorage_count(data, collection, predicate) ==
    Len(SelectSeq(collection_keys(data, collection),
                  LAMBDA k : predicate = None \/ call(predicate[2], data[k])))

\* clear(): both durable maps are emptied key by key
IcpMemoryStorage_clear_data(data) == map_remove_all(data, Range(map_iter(data)))

IcpMemoryStorage_clear_vectors(vectors) ==
    map_remove_all(vectors, Range(map_iter(vectors)))


(***************************************************************************)
(* IcpVectorStorage                                                        *)
(***************************************************************************)
\* fixed-point resolution of a similarity: 1.0 is Scale
Scale == 100

RECURSIVE isqrt_between(_, _, _)
\* the largest r in lo..hi with r * r <= x
isqrt_between(x, lo, hi) ==
    IF lo >= hi THEN lo
    ELSE LET mid == (lo + hi + 1) \div 2
         IN  IF mid * mid <= x THEN isqrt_between(x, mid, hi)
             ELSE isqrt_between(x, lo, mid - 1)

\* f32::sqrt of a whole number, in units of 1/Scale
sqrt_f32(x) == isqrt_between(x * Scale * Scale, 0, (x + 1) * Scale)

RECURSIVE dot(_, _)
dot(a, b) == IF a = <<>> THEN 0 ELSE a[1] * b[1] + dot(Tail(a), Tail(b))

\* in units of 1/Scale
cosine_similarity(a, b) ==
    IF Len(a) # Len(b) THEN 0
    ELSE LET dot_product == dot(a, b)
             norm_a == dot(a, a)
             norm_b == dot(b, b)
             magnitude == sqrt_f32(norm_a) * sqrt_f32(norm_b)
         IN  IF magnitude = 0 THEN 0
             ELSE (dot_product * Scale * Scale * Scale) \div magnitude

DimensionMismatch(expected, actual) ==
    <<"DimensionMismatch", expected, actual>>

\* init that keeps the dimension of a new index whatever it is given
IcpVectorStorage_init_default(dimension) == 384

\* the new VECTOR_DIM
IcpVectorStorage_init(dimension) == dimension

\* add cutting the vector to the dimension instead of rejecting it
IcpVectorStorage_add_truncating(vectors, dim, id, vector) ==
    [vectors |-> VECTORS_insert(vectors, id, Take(vector, dim)), ret |-> Ok(Unit)]

\* [vectors, ret]
IcpVectorStorage_add(vectors, dim, id, vector) ==
    IF Len(vector) # dim
    THEN [vectors |-> vectors, ret |-> Err(DimensionMismatch(dim, Len(vector)))]
    ELSE [vectors |-> VECTORS_insert(vectors, id, vector), ret |-> Ok(Unit)]

\* remove that empties the index
IcpVectorStorage_remove_clearing(vectors, id) ==
    map_remove_all(vectors, Range(map_iter(vectors)))

IcpVectorStorage_remove(vectors, id) == map_remove(vectors, id)

\* slice::sort_by with a comparator that puts the larger key first; the sort
\* is stable.  key[i] is the key of s[i].  The place of s[i] is the number of
\* elements with a larger key, or with the same key and standing before it,
\* plus one.
sort_by_desc(s, key) ==
    LET rank(i) ==
            1 + Cardinality({j \in 1..Len(s) : key[j] > key[i]})
              + Cardinality({j \in 1..(i - 1) : key[j] = key[i]})
    IN  [r \in 1..Len(s) |-> s[CHOOSE i \in 1..Len(s) : rank(i) = r]]

VectorSearchResult(id, similarity) ==
    [id |-> id, distance |-> Scale - similarity, similarity |-> similarity]

\* search without results.truncate(k)
IcpVectorStorage_search_untruncated(vectors, dim, query, k, threshold) ==
    IF Len(query) # dim
    THEN Err(DimensionMismatch(dim, Len(query)))
    ELSE LET keys == SelectSeq(map_iter(vectors),
                        LAMBDA key : cosine_similarity(query, vectors[key]) >= threshold)
             results == [i \in 1..Len(keys) |->
                            VectorSearchResult(keys[i],
                                cosine_similarity(query, vectors[keys[i]]))]
         IN  Ok(sort_by_desc(results, [i \in 1..Len(results) |-> results[i].similarity]))

\* search with a sort that is not stable: of records with the same similarity
\* the one stored later comes first
IcpVectorStorage_search_unstable(vectors, dim, query, k, threshold) ==
    IF Len(query) # dim
    THEN Err(DimensionMismatch(dim, Len(query)))
    ELSE LET keys == SelectSeq(map_iter(vectors),
                        LAMBDA key : cosine_similarity(query, vectors[key]) >= threshold)
             n == Len(keys)
             results == [i \in 1..n |->
                            VectorSearchResult(keys[n + 1 - i],
                                cosine_similarity(query, vectors[keys[n + 1 - i]]))]
             sorted == sort_by_desc(results,
                                    [i \in 1..Len(results) |-> results[i].similarity])
         IN  Ok(Take(sorted, k))

\* Ok(results) or Err(DimensionMismatch)
IcpVectorStorage_search(vectors, dim, query, k, threshold) ==
    IF Len(query) # dim
    THEN Err(DimensionMismatch(dim, Len(query)))
    ELSE LET keys == SelectSeq(map_iter(vectors),
                        LAMBDA key : cosine_similarity(query, vectors[key]) >= threshold)
             results == [i \in 1..Len(keys) |->
                            VectorSearchResult(keys[i],
                                cosine_similarity(query, vectors[keys[i]]))]
             sorted == sort_by_desc(results,
                                    [i \in 1..Len(results) |-> results[i].similarity])
         IN  Ok(Take(sorted, k))

IcpVectorStorage_clear(vectors) == map_remove_all(vectors, Range(map_iter(vectors)))

IcpVectorStorage_size(vectors) == Cardinality(DOMAIN vectors)

(***************************************************************************)
(* IcpDatabaseAdapter.  self is [agent_id, embedding_dimension, ready].    *)
(***************************************************************************)
DefaultDimension == 384

DefaultCount == 10

\* the default match threshold, 0.5
DefaultThreshold == Scale \div 2

IcpDatabaseAdapter_new(agent_id) ==
    [agent_id |-> agent_id, embedding_dimension |-> DefaultDimension, ready |-> FALSE]

\* [self, dim]: IcpMemoryStorage::init() does nothing
IcpDatabaseAdapter_init(self) ==
    [self |-> [self EXCEPT !.ready = TRUE],
     dim  |-> IcpVectorStorage_init(self.embedding_dimension)]

\* IcpMemoryStorage::close(): the new CACHE
IcpMemoryStorage_close(cache) == EmptyMap

IcpDatabaseAdapter_is_ready(self) == self.ready

\* close that leaves the ready flag set
IcpDatabaseAdapter_close_stays_ready(self, vectors, cache) ==
    [self    |-> self,
     vectors |-> IcpVectorStorage_clear(vectors),
     cache   |-> IcpMemoryStorage_close(cache)]

\* [self, vectors, cache]
IcpDatabaseAdapter_close(self, vectors, cache) ==
    [self    |-> [self EXCEPT !.ready = FALSE],
     vectors |-> IcpVectorStorage_clear(vectors),
     cache   |-> IcpMemoryStorage_close(cache)]

IcpDatabaseAdapter_get_agent(data, agent_id) ==
    IcpMemoryStorage_get(data, COLLECTIONS_AGENTS, agent_id)

\* create_agent that falls back to the empty id
IcpDatabaseAdapter_create_agent_default_id(data, agent) ==
    [data |-> IcpMemoryStorage_set(data, COLLECTIONS_AGENTS,
                  unwrap_or(as_str(get_field(agent, "id")), <<>>), agent),
     ret  |-> Ok(TRUE)]

\* [data, ret]
IcpDatabaseAdapter_create_agent(data, agent) ==
    LET id == as_str(get_field(agent, "id"))
    IN  IF id # None
        THEN [data |-> IcpMemoryStorage_set(data, COLLECTIONS_AGENTS, id[2], agent),
              ret  |-> Ok(TRUE)]
        ELSE [data |-> data, ret |-> Ok(FALSE)]

\* the loop `for (k, v) in agent_obj { existing_obj.insert(k, v) }`, which only
\* runs when both values are objects
merge_into(existing, agent) ==
    IF is_object(existing) /\ is_object(agent)
    THEN JObj([k \in DOMAIN existing[2] \cup DOMAIN agent[2] |->
                 IF k \in DOMAIN agent[2] THEN agent[2][k] ELSE existing[2][k]])
    ELSE existing

\* update_agent that stores the patch in place of the document
IcpDatabaseAdapter_update_agent_replacing(data, agent_id, agent) ==
    LET existing == IcpDatabaseAdapter_get_agent(data, agent_id)
    IN  IF existing # None
        THEN [data |-> IcpMemoryStorage_set(data, COLLECTIONS_AGENTS, agent_id, agent),
              ret  |-> Ok(TRUE)]
        ELSE [data |-> data, ret |-> Ok(FALSE)]

\* update_agent that creates the agent when there is none
IcpDatabaseAdapter_update_agent_creating(data, agent_id, agent) ==
    LET existing == IcpDatabaseAdapter_get_agent(data, agent_id)
    IN  IF existing # None
        THEN [data |-> IcpMemoryStorage_set(data, COLLECTIONS_AGENTS, agent_id,
                                            merge_into(existing[2], agent)),
              ret  |-> Ok(TRUE)]
        ELSE [data |-> IcpMemoryStorage_set(data, COLLECTIONS_AGENTS, agent_id, agent),
              ret  |-> Ok(FALSE)]

\* [data, ret]
IcpDatabaseAdapter_update_agent(data, agent_id, agent) ==
    LET existing == IcpDatabaseAdapter_get_agent(data, agent_id)
    IN  IF existing # None
        THEN [data |-> IcpMemoryStorage_set(data, COLLECTIONS_AGENTS, agent_id,
                                            merge_into(existing[2], agent)),
              ret  |-> Ok(TRUE)]
        ELSE [data |-> data, ret |-> Ok(FALSE)]

\* [data, ret]
IcpDatabaseAdapter_delete_agent(data, agent_id) ==
    [data |-> IcpMemoryStorage_delete(data, COLLECTIONS_AGENTS, agent_id),
     ret  |-> Ok(IcpMemoryStorage_delete_ret(data, COLLECTIONS_AGENTS, agent_id))]

\* get_cache that already treats an entry as expired at nowv = expiresAt
IcpDatabaseAdapter_get_cache_expiring_at(data, key, nowv) ==
    LET cached == IcpMemoryStorage_get(data, COLLECTIONS_CACHE, key)
        expires_at == IF cached = None THEN None
                      ELSE as_i64(get_field(cached[2], "expiresAt"))
    IN  IF cached = None THEN [data |-> data, ret |-> Ok(None)]
        ELSE IF expires_at # None /\ nowv >= expires_at[2]
        THEN [data |-> IcpMemoryStorage_delete(data, COLLECTIONS_CACHE, key),
              ret  |-> Ok(None)]
        ELSE [data |-> data, ret |-> Ok(get_field(cached[2], "value"))]

\* get_cache that takes the entry out of the cache when it returns its value
IcpDatabaseAdapter_get_cache_consuming(data, key, nowv) ==
    LET cached == IcpMemoryStorage_get(data, COLLECTIONS_CACHE, key)
    IN  IF cached = None THEN [data |-> data, ret |-> Ok(None)]
        ELSE [data |-> IcpMemoryStorage_delete(data, COLLECTIONS_CACHE, key),
              ret  |-> Ok(get_field(cached[2], "value"))]

\* [data, ret]: an entry whose top-level expiresAt is before nowv is deleted
IcpDatabaseAdapter_get_cache(data, key, nowv) ==
    LET cached == IcpMemoryStorage_get(data, COLLECTIONS_CACHE, key)
        expires_at == IF cached = None THEN None
                      ELSE as_i64(get_field(cached[2], "expiresAt"))
    IN  IF cached = None THEN [data |-> data, ret |-> Ok(None)]
        ELSE IF expires_at # None /\ nowv > expires_at[2]
        THEN [data |-> IcpMemoryStorage_delete(data, COLLECTIONS_CACHE, key),
              ret  |-> Ok(None)]
        ELSE [data |-> data, ret |-> Ok(get_field(cached[2], "value"))]

\* set_cache that stores the value itself, without the envelope
IcpDatabaseAdapter_set_cache_bare(data, key, value) ==
    [data |-> IcpMemoryStorage_set(data, COLLECTIONS_CACHE, key, value),
     ret  |-> Ok(TRUE)]

\* [data, ret]
IcpDatabaseAdapter_set_cache(data, key, value) ==
    [data |-> IcpMemoryStorage_set(data, COLLECTIONS_CACHE, key, JObj([value |-> value])),
     ret  |-> Ok(TRUE)]

\* [data, ret]
IcpDatabaseAdapter_delete_cache(data, key) ==
    [data |-> IcpMemoryStorage_delete(data, COLLECTIONS_CACHE, key),
     ret  |-> Ok(IcpMemoryStorage_delete_ret(data, COLLECTIONS_CACHE, key))]

\* [self, dim]
IcpDatabaseAdapter_ensure_embedding_dimension(self, dim, dimension) ==
    IF self.embedding_dimension # dimension
    THEN [self |-> [self EXCEPT !.embedding_dimension = dimension],
          dim  |-> IcpVectorStorage_init(dimension)]
    ELSE [self |-> self, dim |-> dim]

created_at_key(m) == unwrap_or(as_i64(get_field(m, "createdAt")), 0)

\* get_memories that keeps `count` documents before it drops `offset`
IcpDatabaseAdapter_get_memories_limit_first(data, q) ==
    LET memories == IcpMemoryStorage_get_where(data, COLLECTIONS_MEMORIES,
                                               <<"memories_filter", q>>)
        sorted == sort_by_desc(memories,
                               [i \in 1..Len(memories) |-> created_at_key(memories[i])])
        taken == IF q.count # None THEN Take(sorted, q.count[2]) ELSE sorted
    IN  IF q.offset # None THEN Skip(taken, q.offset[2]) ELSE taken

\* q is [entity_id, agent_id, room_id, world_id, table_name, count, offset];
\* the `_unique` argument is not read
IcpDatabaseAdapter_get_memories(data, q) ==
    LET memories == IcpMemoryStorage_get_where(data, COLLECTIONS_MEMORIES,
                                               <<"memories_filter", q>>)
        sorted == sort_by_desc(memories,
                               [i \in 1..Len(memories) |-> created_at_key(memories[i])])
        skipped == IF q.offset # None THEN Skip(sorted, q.offset[2]) ELSE sorted
    IN  IF q.count # None THEN Take(skipped, q.count[2]) ELSE skipped

IcpDatabaseAdapter_get_memory_by_id(data, id) ==
    IcpMemoryStorage_get(data, COLLECTIONS_MEMORIES, id)

\* whether search_memories keeps the fetched memory
search_keeps(memory, table_name, room_id, world_id, entity_id, unique) ==
    /\ table_matches(memory, table_name)
    /\ field_matches(memory, "roomId", room_id)
    /\ field_matches(memory, "worldId", world_id)
    /\ field_matches(memory, "entityId", entity_id)
    /\ ~(unique = Some(TRUE) /\ get_field(memory, "unique") # Some(JBool(TRUE)))

\* search_memories without the final take(k)
IcpDatabaseAdapter_search_memories_all_candidates(data, vectors, dim, q) ==
    LET threshold == unwrap_or(q.match_threshold, DefaultThreshold)
        k == unwrap_or(q.count, DefaultCount)
        found == IcpVectorStorage_search(vectors, dim, q.embedding, k * 2, threshold)
    IN  IF found[1] = "Err" THEN found
        ELSE LET results == found[2]
                 kept == SelectSeq(results, LAMBDA r :
                            LET memory == IcpDatabaseAdapter_get_memory_by_id(data, r.id)
                            IN  /\ memory # None
                                /\ search_keeps(memory[2], q.table_name, q.room_id,
                                                q.world_id, q.entity_id, q.unique))
             IN  Ok([i \in 1..Len(kept) |->
                        obj_insert(
                            IcpDatabaseAdapter_get_memory_by_id(data, kept[i].id)[2],
                            "similarity", JNum(kept[i].similarity))])

\* search_memories that asks the Vector Index for k candidates, not k * 2
IcpDatabaseAdapter_search_memories_k_candidates(data, vectors, dim, q) ==
    LET threshold == unwrap_or(q.match_threshold, DefaultThreshold)
        k == unwrap_or(q.count, DefaultCount)
        found == IcpVectorStorage_search(vectors, dim, q.embedding, k, threshold)
    IN  IF found[1] = "Err" THEN found
        ELSE LET results == found[2]
                 kept == SelectSeq(results, LAMBDA r :
                            LET memory == IcpDatabaseAdapter_get_memory_by_id(data, r.id)
                            IN  /\ memory # None
                                /\ search_keeps(memory[2], q.table_name, q.room_id,
                                                q.world_id, q.entity_id, q.unique))
                 memories == [i \in 1..Len(kept) |->
                                obj_insert(
                                    IcpDatabaseAdapter_get_memory_by_id(data, kept[i].id)[2],
                                    "similarity", JNum(kept[i].similarity))]
             IN  Ok(Take(memories, k))

\* q is [table_name, embedding, match_threshold, count, room_id, world_id,
\* entity_id, unique]; Ok(documents) or Err(DimensionMismatch)
IcpDatabaseAdapter_search_memories(data, vectors, dim, q) ==
    LET threshold == unwrap_or(q.match_threshold, DefaultThreshold)
        k == unwrap_or(q.count, DefaultCount)
        found == IcpVectorStorage_search(vectors, dim, q.embedding, k * 2, threshold)
    IN  IF found[1] = "Err" THEN found
        ELSE LET results == found[2]
                 kept == SelectSeq(results, LAMBDA r :
                            LET memory == IcpDatabaseAdapter_get_memory_by_id(data, r.id)
                            IN  /\ memory # None
                                /\ search_keeps(memory[2], q.table_name, q.room_id,
                                                q.world_id, q.entity_id, q.unique))
                 memories == [i \in 1..Len(kept) |->
                                obj_insert(
                                    IcpDatabaseAdapter_get_memory_by_id(data, kept[i].id)[2],
                                    "similarity", JNum(kept[i].similarity))]
             IN  Ok(Take(memories, k))

\* the numbers of a JSON array as f32 values (filter_map as_f64, `as f32`)
embedding_of(arr) ==
    LET nums == SelectSeq(arr, LAMBDA v : v[1] = "num")
    IN  [i \in 1..Len(nums) |-> nums[i][2]]

\* stored_memory that leaves a metadata.type the document already carries
stored_memory_keeps_type(self, memory, id, table_name, unique, nowv) ==
    LET metadata == unwrap_or(get_field(memory, "metadata"), JObj(EmptyMap))
        s1 == obj_insert(memory, "id", JStr(id))
        s2 == obj_insert(s1, "agentId",
                  unwrap_or(get_field(memory, "agentId"), JStr(self.agent_id)))
        s3 == obj_insert(s2, "unique",
                  JBool(unique \/ get_field(memory, "unique") = Some(JBool(TRUE))))
        s4 == obj_insert(s3, "createdAt",
                  unwrap_or(get_field(memory, "createdAt"), JNum(nowv)))
    IN  obj_insert(s4, "metadata",
            IF get_field(metadata, "type") # None THEN metadata
            ELSE obj_insert(metadata, "type", JStr(table_name)))

\* the document create_memory stores under id
stored_memory(self, memory, id, table_name, unique, nowv) ==
    LET metadata == unwrap_or(get_field(memory, "metadata"), JObj(EmptyMap))
        s1 == obj_insert(memory, "id", JStr(id))
        s2 == obj_insert(s1, "agentId",
                  unwrap_or(get_field(memory, "agentId"), JStr(self.agent_id)))
        s3 == obj_insert(s2, "unique",
                  JBool(unique \/ get_field(memory, "unique") = Some(JBool(TRUE))))
        s4 == obj_insert(s3, "createdAt",
                  unwrap_or(get_field(memory, "createdAt"), JNum(nowv)))
    IN  obj_insert(s4, "metadata", obj_insert(metadata, "type", JStr(table_name)))

\* create_memory that stores the document and never adds to the Vector Index
IcpDatabaseAdapter_create_memory_unindexed(self, data, vectors, dim, in, uuid, nowv) ==
    LET id == unwrap_or(as_str(get_field(in.memory, "id")), uuid)
    IN  [data    |-> IcpMemoryStorage_set(data, COLLECTIONS_MEMORIES, id,
                         stored_memory(self, in.memory, id, in.table_name, in.unique, nowv)),
         vectors |-> vectors,
         ret     |-> Ok(id)]

\* in is [memory, table_name, unique]; uuid is what generate_uuid() returns if
\* it is called.  The result is [data, vectors, ret].
IcpDatabaseAdapter_create_memory(self, data, vectors, dim, in, uuid, nowv) ==
    LET memory == in.memory
        id == unwrap_or(as_str(get_field(memory, "id")), uuid)
        data2 == IcpMemoryStorage_set(data, COLLECTIONS_MEMORIES, id,
                     stored_memory(self, memory, id, in.table_name, in.unique, nowv))
        arr == as_array(get_field(memory, "embedding"))
        embedding == IF arr = None THEN <<>> ELSE embedding_of(arr[2])
        added == IF embedding # <<>>
                 THEN IcpVectorStorage_add(vectors, dim, id, embedding)
                 ELSE [vectors |-> vectors, ret |-> Ok(Unit)]
    IN  [data    |-> data2,
         vectors |-> added.vectors,
         ret     |-> IF added.ret[1] = "Err" THEN added.ret ELSE Ok(id)]

\* delete_memory that leaves the vector record
IcpDatabaseAdapter_delete_memory_doc_only(data, vectors, memory_id) ==
    [data    |-> IcpMemoryStorage_delete(data, COLLECTIONS_MEMORIES, memory_id),
     vectors |-> vectors]

\* [data, vectors]; the result is always Ok(())
IcpDatabaseAdapter_delete_memory(data, vectors, memory_id) ==
    [data    |-> IcpMemoryStorage_delete(data, COLLECTIONS_MEMORIES, memory_id),
     vectors |-> IcpVectorStorage_remove(vectors, memory_id)]

\* [data, ret]
IcpDatabaseAdapter_create_room(data, room, uuid) ==
    LET id == unwrap_or(as_str(get_field(room, "id")), uuid)
    IN  [data |-> IcpMemoryStorage_set(data, COLLECTIONS_ROOMS, id,
                      obj_insert(room, "id", JStr(id))),
         ret  |-> Ok(id)]

IcpDatabaseAdapter_get_room(data, id) ==
    IcpMemoryStorage_get(data, COLLECTIONS_ROOMS, id)

\* [data, ret]
IcpDatabaseAdapter_create_entity(data, entity, uuid) ==
    LET id == unwrap_or(as_str(get_field(entity, "id")), uuid)
    IN  [data |-> IcpMemoryStorage_set(data, COLLECTIONS_ENTITIES, id,
                      obj_insert(entity, "id", JStr(id))),
         ret  |-> Ok(id)]

IcpDatabaseAdapter_get_entity(data, id) ==
    IcpMemoryStorage_get(data, COLLECTIONS_ENTITIES, id)

IcpDatabaseAdapter_get_agents(data) == IcpMemoryStorage_get_all(data, COLLECTIONS_AGENTS)

\* None when none of the ids names a room, Some(rooms found) otherwise
IcpDatabaseAdapter_get_rooms_by_ids(data, room_ids) ==
    LET found == SelectSeq(room_ids,
                     LAMBDA id : IcpMemoryStorage_get(data, COLLECTIONS_ROOMS, id) # None)
        rooms == [i \in 1..Len(found) |->
                     IcpMemoryStorage_get(data, COLLECTIONS_ROOMS, found[i])[2]]
    IN  IF rooms = <<>> THEN None ELSE Some(rooms)

IcpDatabaseAdapter_memory_count(data) ==
    IcpMemoryStorage_count(data, COLLECTIONS_MEMORIES, None)

\* delete_room that returns early when there is no room document
IcpDatabaseAdapter_delete_room_if_exists(data, room_id) ==
    IF IcpMemoryStorage_get(data, COLLECTIONS_ROOMS, room_id) = None
    THEN data
    ELSE LET d1 == IcpMemoryStorage_delete(data, COLLECTIONS_ROOMS, room_id)
             d2 == IcpMemoryStorage_delete_where(d1, COLLECTIONS_PARTICIPANTS,
                                                 <<"room_id_is", room_id>>)
         IN  IcpMemoryStorage_delete_where(d2, COLLECTIONS_MEMORIES,
                                           <<"room_id_is", room_id>>)

\* delete_room that drops the memories of every room
IcpDatabaseAdapter_delete_room_every_memory(data, room_id) ==
    LET d1 == IcpMemoryStorage_delete(data, COLLECTIONS_ROOMS, room_id)
        d2 == IcpMemoryStorage_delete_where(d1, COLLECTIONS_PARTICIPANTS,
                                            <<"room_id_is", room_id>>)
    IN  IcpMemoryStorage_delete_where(d2, COLLECTIONS_MEMORIES, <<"any">>)

\* the new DATA; the result is always Ok(())
IcpDatabaseAdapter_delete_room(data, room_id) ==
    LET d1 == IcpMemoryStorage_delete(data, COLLECTIONS_ROOMS, room_id)
        d2 == IcpMemoryStorage_delete_where(d1, COLLECTIONS_PARTICIPANTS,
                                            <<"room_id_is", room_id>>)
    IN  IcpMemoryStorage_delete_where(d2, COLLECTIONS_MEMORIES,
                                      <<"room_id_is", room_id>>)

\* [adapter, dim, ret]: the global handle, the dimension and the returned clone
create_database_adapter(adapter, dim, agent_id) ==
    IF adapter = None
    THEN LET made == IcpDatabaseAdapter_init(IcpDatabaseAdapter_new(agent_id))
         IN  [adapter |-> Some(made.self), dim |-> made.dim, ret |-> made.self]
    ELSE [adapter |-> adapter, dim |-> dim, ret |-> adapter[2]]

(***************************************************************************)
(* eliza_bridge.rs: IcpElizaAdapter, a wrapper that owns an                *)
(* IcpDatabaseAdapter (inner) and keeps a ready flag of its own.           *)
(***************************************************************************)
IcpElizaAdapter_new(agent_id) ==
    [inner |-> IcpDatabaseAdapter_new(agent_id), ready |-> FALSE]

\* [self, dim]: inner.init() cannot fail
IcpElizaAdapter_init(self) ==
    LET r == IcpDatabaseAdapter_init(self.inner)
    IN  [self |-> [inner |-> r.self, ready |-> TRUE], dim |-> r.dim]

\* [self, vectors, cache]: inner.close() cannot fail
IcpElizaAdapter_close(self, vectors, cache) ==
    LET r == IcpDatabaseAdapter_close(self.inner, vectors, cache)
    IN  [self |-> [inner |-> r.self, ready |-> FALSE],
         vectors |-> r.vectors, cache |-> r.cache]

IcpElizaAdapter_is_ready(self) == self.ready


(***************************************************************************)
(* lib.rs: the canister's entry points.  A call runs from its first        *)
(* statement to its return, or to an await on another canister, before the *)
(* next call starts (there is one thread and no preemption); chat is the   *)
(* only entry point modelled here that awaits.                             *)
(***************************************************************************)
ElizaClassic == "ElizaClassic"

DfinityLLM == "DfinityLLM"

AgentState_new(agent_id, character, t) ==
    [agent_id |-> agent_id, character |-> character, initialized |-> TRUE,
     created_at |-> t, last_active |-> t, message_count |-> 0]

ensure_initialized(state) ==
    IF state = None THEN Err("NotInitialized") ELSE Ok(state[2])

\* json! of an Option<String>
opt_json(o) == IF o = None THEN JNull ELSE JStr(o[2])

\* init_agent that makes a new agent whether or not there is one
init_agent_again(state, data, adapter, dim, character, uuid, nowv) ==
    LET agent_id == uuid
        made == create_database_adapter(adapter, dim, agent_id)
        agent_data == JObj([id |-> JStr(agent_id), name |-> JStr(character.name),
                            bio |-> JStr(character.bio),
                            system |-> opt_json(character.system),
                            createdAt |-> JNum(nowv)])
        created == IcpDatabaseAdapter_create_agent(data, agent_data)
    IN  [state |-> Some(AgentState_new(agent_id, character, nowv)),
         data |-> created.data, adapter |-> made.adapter, dim |-> made.dim,
         ret |-> Ok(agent_id)]

\* [state, data, adapter, dim, ret]; uuid is what generate_uuid() returns
init_agent(state, data, adapter, dim, character, uuid, nowv) ==
    IF state # None
    THEN [state |-> state, data |-> data, adapter |-> adapter, dim |-> dim,
          ret |-> Err("AlreadyInitialized")]
    ELSE LET agent_id == uuid
             made == create_database_adapter(adapter, dim, agent_id)
             agent_data == JObj([id |-> JStr(agent_id), name |-> JStr(character.name),
                                 bio |-> JStr(character.bio),
                                 system |-> opt_json(character.system),
                                 createdAt |-> JNum(nowv)])
             created == IcpDatabaseAdapter_create_agent(data, agent_data)
         IN  [state |-> Some(AgentState_new(agent_id, character, nowv)),
              data |-> created.data, adapter |-> made.adapter, dim |-> made.dim,
              ret |-> Ok(agent_id)]

\* request.message.trim().is_empty()
trim_is_empty(message) == \A i \in 1..Len(message) : message[i] = " "

\* the id chat uses when the request names no user: "user-" and the caller
default_user_id(caller) == <<"u", "s", "e", "r", "-">> \o caller

\* the id chat uses when the request names no room
default_room_id(user_id, agent_id) ==
    <<"r", "o", "o", "m", "-">> \o user_id \o <<"-">> \o agent_id

\* the entity document chat creates for a user it has not seen
user_entity(user_id, nowv) ==
    JObj([id |-> JStr(user_id),
          name |-> JStr(<<"U", "s", "e", "r", " ">> \o Take(user_id, 8)),
          type |-> JStr(<<"u", "s", "e", "r">>),
          createdAt |-> JNum(nowv)])

\* the room document chat creates when the room does not exist
chat_room(room_id, user_id, state, nowv) ==
    JObj([id |-> JStr(room_id),
          name |-> JStr(<<"C", "h", "a", "t", " ", "w", "i", "t", "h", " ">>
                        \o state.character.name),
          participants |-> JArr(<<JStr(user_id), JStr(state.agent_id)>>),
          createdAt |-> JNum(nowv)])

\* the memory chat creates for a message of `entity_id`, as create_memory's input
chat_message(entity_id, agent_id, room_id, text, nowv) ==
    [memory |-> JObj([entityId |-> JStr(entity_id), agentId |-> JStr(agent_id),
                      roomId |-> JStr(room_id),
                      content |-> JObj([text |-> JStr(text)]),
                      createdAt |-> JNum(nowv)]),
     table_name |-> <<"m", "e", "s", "s", "a", "g", "e", "s">>,
     unique |-> FALSE]

\* chat's query for the recent messages of the room
recent_query(agent_id, room_id) ==
    [entity_id |-> None, agent_id |-> Some(agent_id), room_id |-> Some(room_id),
     world_id |-> None, table_name |-> <<"m", "e", "s", "s", "a", "g", "e", "s">>,
     count |-> Some(20), offset |-> None]

\* chat up to its await: the user entity and the room are created if they are
\* missing, the user's message is stored and the recent messages are read.
\* [data, vectors, adapter, dim, ret]; ret is Err(_), or Ok of the values the
\* call holds while the response is generated.
chat_begin(state, data, vectors, adapter, dim, request, caller, uuid, nowv) ==
    IF ensure_initialized(state)[1] = "Err"
    THEN [data |-> data, vectors |-> vectors, adapter |-> adapter, dim |-> dim,
          ret |-> ensure_initialized(state)]
    ELSE IF trim_is_empty(request.message)
    THEN [data |-> data, vectors |-> vectors, adapter |-> adapter, dim |-> dim,
          ret |-> Err("InvalidInput")]
    ELSE
    LET st == ensure_initialized(state)[2]
        made == create_database_adapter(adapter, dim, st.agent_id)
        user_id == unwrap_or(request.user_id, default_user_id(caller))
        d1 == IF IcpDatabaseAdapter_get_entity(data, user_id) = None
              THEN IcpDatabaseAdapter_create_entity(data, user_entity(user_id, nowv),
                                                    <<>>).data
              ELSE data
        room_id == unwrap_or(request.room_id, default_room_id(user_id, st.agent_id))
        d2 == IF IcpDatabaseAdapter_get_room(d1, room_id) = None
              THEN IcpDatabaseAdapter_create_room(d1, chat_room(room_id, user_id, st, nowv),
                                                  <<>>).data
              ELSE d1
        created == IcpDatabaseAdapter_create_memory(made.ret, d2, vectors, made.dim,
                       chat_message(user_id, st.agent_id, room_id, request.message, nowv),
                       uuid, nowv)
    IN  [data |-> created.data, vectors |-> created.vectors,
         adapter |-> made.adapter, dim |-> made.dim,
         ret |-> IF created.ret[1] = "Err" THEN created.ret
                 ELSE Ok([state |-> st, adapter |-> made.ret, request |-> request,
                          user_id |-> user_id, room_id |-> room_id,
                          user_message_id |-> created.ret[2],
                          recent_memories |->
                              IcpDatabaseAdapter_get_memories(created.data,
                                  recent_query(st.agent_id, room_id))])]

\* AGENT_STATE after chat's update of it
count_message(state, t) ==
    IF state = None THEN None
    ELSE Some([state[2] EXCEPT !.last_active = t, !.message_count = @ + 1])

\* chat from the point where the response text is there: the response is stored
\* in the room the call started with and the message counter goes up.
\* held is what chat_begin returned; [data, vectors, state, ret]
chat_finish(state, data, vectors, dim, held, response_text, uuid, nowv) ==
    LET created == IcpDatabaseAdapter_create_memory(held.adapter, data, vectors, dim,
                       chat_message(held.state.agent_id, held.state.agent_id,
                                    held.room_id, response_text, nowv),
                       uuid, nowv)
    IN  IF created.ret[1] = "Err"
        THEN [data |-> created.data, vectors |-> created.vectors, state |-> state,
              ret |-> created.ret]
        ELSE [data |-> created.data, vectors |-> created.vectors,
              state |-> count_message(state, nowv),
              ret |-> Ok([message |-> response_text, room_id |-> held.room_id,
                          message_id |-> created.ret[2], timestamp |-> nowv])]

\* the statements of IcpDatabaseAdapter::delete_room, one by one: statement pc
\* applied to DATA
delete_room_statement(data, room_id, pc) ==
    CASE pc = 1 -> IcpMemoryStorage_delete(data, COLLECTIONS_ROOMS, room_id)
      [] pc = 2 -> IcpMemoryStorage_delete_where(data, COLLECTIONS_PARTICIPANTS,
                                                 <<"room_id_is", room_id>>)
      [] pc = 3 -> IcpMemoryStorage_delete_where(data, COLLECTIONS_MEMORIES,
                                                 <<"room_id_is", room_id>>)

\* the statements of IcpDatabaseAdapter::delete_memory: [data, vectors] after
\* statement pc
delete_memory_statement(data, vectors, memory_id, pc) ==
    CASE pc = 1 -> [data    |-> IcpMemoryStorage_delete(data, COLLECTIONS_MEMORIES, memory_id),
                    vectors |-> vectors]
      [] pc = 2 -> [data    |-> data,
                    vectors |-> IcpVectorStorage_remove(vectors, memory_id)]

\* the number of statements of the two operations
statements(op) == IF op = "delete_room" THEN 3 ELSE 2

\* get_rooms: the room documents as JSON texts
get_rooms(state, data) ==
    IF state = None THEN <<>>
    ELSE LET rooms == IcpMemoryStorage_get_all(data, COLLECTIONS_ROOMS)
         IN  [i \in 1..Len(rooms) |-> to_json(rooms[i])]

\* [state, ret]
update_character(state, config) ==
    IF ensure_initialized(state)[1] = "Err"
    THEN [state |-> state, ret |-> ensure_initialized(state)]
    ELSE [state |-> Some([ensure_initialized(state)[2] EXCEPT !.character = config]),
          ret |-> Ok(Unit)]

get_agent_state(state) == state

\* the create_room entry point; name is an Option<String>.  [data, adapter, dim, ret]
create_room(state, data, adapter, dim, name, uuid, nowv) ==
    IF ensure_initialized(state)[1] = "Err"
    THEN [data |-> data, adapter |-> adapter, dim |-> dim, ret |-> ensure_initialized(state)]
    ELSE LET st == ensure_initialized(state)[2]
             made == create_database_adapter(adapter, dim, st.agent_id)
             created == IcpDatabaseAdapter_create_room(data,
                            JObj([name |-> opt_json(name),
                                  participants |-> JArr(<<JStr(st.agent_id)>>),
                                  createdAt |-> JNum(nowv)]),
                            uuid)
         IN  [data |-> created.data, adapter |-> made.adapter, dim |-> made.dim,
              ret |-> created.ret]

\* the create_memory entry point; memory_json is a JSON text.
\* [data, vectors, adapter, dim, ret]
create_memory(state, data, vectors, adapter, dim, memory_json, table_name, unique, uuid, nowv) ==
    IF ensure_initialized(state)[1] = "Err"
    THEN [data |-> data, vectors |-> vectors, adapter |-> adapter, dim |-> dim,
          ret |-> ensure_initialized(state)]
    ELSE LET st == ensure_initialized(state)[2]
             made == create_database_adapter(adapter, dim, st.agent_id)
             memory == from_slice(memory_json)
         IN  IF memory[1] = "Err"
             THEN [data |-> data, vectors |-> vectors, adapter |-> made.adapter,
                   dim |-> made.dim, ret |-> Err("SerializationError")]
             ELSE LET created == IcpDatabaseAdapter_create_memory(made.ret, data, vectors,
                                     made.dim,
                                     [memory |-> memory[2], table_name |-> table_name,
                                      unique |-> unique],
                                     uuid, nowv)
                  IN  [data |-> created.data, vectors |-> created.vectors,
                       adapter |-> made.adapter, dim |-> made.dim, ret |-> created.ret]

(***************************************************************************)
(* Bounds and inputs                                                       *)
(***************************************************************************)
\* calls of generate_uuid per process lifetime
MaxUuid == 1

\* process restarts
MaxEpoch == 1

\* the readings of the clock, in milliseconds
Times == <<150, 250>>

Digits == <<"1", "2", "3", "4">>

TimeIndex(t) == CHOOSE i \in 1..Len(Times) : Times[i] = t

\* generate_uuid(): a hash of the time, the caller and the counter, here the
\* string "u<time><counter>", which differs whenever one of the two differs
generate_uuid(t, counter) == <<"u", Digits[TimeIndex(t)], Digits[counter]>>

\* now_millis()
now_millis(t) == t

Str(s) == JStr(s)

Doc(f) == JObj(f)

(***************************************************************************)
(* The state machine                                                       *)
(***************************************************************************)
Init ==
    /\ DATA = EmptyMap
    /\ VECTORS = EmptyMap
    /\ CACHE = EmptyMap
    /\ VECTOR_DIM = DefaultDimension
    /\ ADAPTER = None
    /\ COUNTER = 0
    /\ bridge = None
    /\ handle = None
    /\ now = Times[1]
    /\ epoch = 0
    /\ AGENT_STATE = None
    /\ INFERENCE_MODE = "ElizaClassic"
    /\ running = None
    /\ calls = {}
    /\ last = [op |-> "start"]

\* the canister's own state (lib.rs) and its calls in progress
canister == <<AGENT_STATE, INFERENCE_MODE, running, calls>>

heap == <<CACHE, VECTOR_DIM, ADAPTER, COUNTER, bridge, handle, canister>>

\* the clock advances
Tick ==
    /\ TimeIndex(now) < Len(Times)
    /\ now' = Times[TimeIndex(now) + 1]
    /\ last' = [op |-> "tick"]
    /\ UNCHANGED <<DATA, VECTORS, heap, epoch>>

\* a restart in which DATA is an ordinary heap map
RestartHeapData ==
    /\ epoch < MaxEpoch
    /\ epoch' = epoch + 1
    /\ DATA' = EmptyMap
    /\ CACHE' = EmptyMap
    /\ VECTOR_DIM' = DefaultDimension
    /\ ADAPTER' = None
    /\ COUNTER' = 0
    /\ bridge' = None
    /\ handle' = None
    /\ AGENT_STATE' = None
    /\ INFERENCE_MODE' = "ElizaClassic"
    /\ running' = None
    /\ calls' = {}
    /\ last' = [op |-> "restart"]
    /\ UNCHANGED <<VECTORS, now>>

\* A process restart: every thread_local that lives on the heap is back at its
\* initial value and the handles are gone; the two stable maps are kept.
Restart ==
    /\ epoch < MaxEpoch
    /\ epoch' = epoch + 1
    /\ CACHE' = EmptyMap
    /\ VECTOR_DIM' = DefaultDimension
    /\ ADAPTER' = None
    /\ COUNTER' = 0
    /\ bridge' = None
    /\ handle' = None
    /\ AGENT_STATE' = None
    /\ INFERENCE_MODE' = "ElizaClassic"
    /\ running' = None
    /\ calls' = {}
    /\ last' = [op |-> "restart"]
    /\ UNCHANGED <<DATA, VECTORS, now>>

---------------------------------------------------------------------------
\* IcpMemoryStorage, called directly

StorageSet(collections, ids, docs) ==
    \E c \in collections, i \in ids, d \in docs :
        /\ DATA' = IcpMemoryStorage_set(DATA, c, i, d)
        /\ last' = [op |-> "set", collection |-> c, id |-> i, doc |-> d, ret |-> Ok(Unit)]
        /\ UNCHANGED <<VECTORS, heap, now, epoch>>

StorageGet(collections, ids) ==
    \E c \in collections, i \in ids :
        /\ last' = [op |-> "get", collection |-> c, id |-> i,
                    ret |-> Ok(IcpMemoryStorage_get(DATA, c, i))]
        /\ UNCHANGED <<DATA, VECTORS, heap, now, epoch>>

StorageGetAll(collections) ==
    \E c \in collections :
        /\ last' = [op |-> "get_all", collection |-> c,
                    ret |-> Ok(IcpMemoryStorage_get_all(DATA, c))]
        /\ UNCHANGED <<DATA, VECTORS, heap, now, epoch>>

StorageGetWhere(collections, predicates) ==
    \E c \in collections, p \in predicates :
        /\ last' = [op |-> "get_where", collection |-> c, predicate |-> p,
                    ret |-> Ok(IcpMemoryStorage_get_where(DATA, c, p))]
        /\ UNCHANGED <<DATA, VECTORS, heap, now, epoch>>

\* predicates are None or Some(closure)
StorageCount(collections, predicates) ==
    \E c \in collections, p \in predicates :
        /\ last' = [op |-> "count", collection |-> c, predicate |-> p,
                    ret |-> Ok(IcpMemoryStorage_count(DATA, c, p))]
        /\ UNCHANGED <<DATA, VECTORS, heap, now, epoch>>

StorageDelete(collections, ids) ==
    \E c \in collections, i \in ids :
        /\ DATA' = IcpMemoryStorage_delete(DATA, c, i)
        /\ last' = [op |-> "delete", collection |-> c, id |-> i,
                    ret |-> Ok(IcpMemoryStorage_delete_ret(DATA, c, i))]
        /\ UNCHANGED <<VECTORS, heap, now, epoch>>

StorageDeleteMany(collections, idlists) ==
    \E c \in collections, ids \in idlists :
        /\ DATA' = IcpMemoryStorage_delete_many(DATA, c, ids)
        /\ last' = [op |-> "delete_many", collection |-> c, ids |-> ids, ret |-> Ok(Unit)]
        /\ UNCHANGED <<VECTORS, heap, now, epoch>>

StorageDeleteWhere(collections, predicates) ==
    \E c \in collections, p \in predicates :
        /\ DATA' = IcpMemoryStorage_delete_where(DATA, c, p)
        /\ last' = [op |-> "delete_where", collection |-> c, predicate |-> p,
                    ret |-> Ok(Unit)]
        /\ UNCHANGED <<VECTORS, heap, now, epoch>>

StorageClear ==
    /\ DATA' = IcpMemoryStorage_clear_data(DATA)
    /\ VECTORS' = IcpMemoryStorage_clear_vectors(VECTORS)
    /\ last' = [op |-> "clear", ret |-> Ok(Unit)]
    /\ UNCHANGED <<heap, now, epoch>>

---------------------------------------------------------------------------
\* IcpVectorStorage, called directly

VectorInit(dims) ==
    \E d \in dims :
        /\ VECTOR_DIM' = IcpVectorStorage_init(d)
        /\ last' = [op |-> "vector_init", dimension |-> d, ret |-> Ok(Unit)]
        /\ UNCHANGED <<DATA, VECTORS, CACHE, ADAPTER, COUNTER, handle, bridge, now, epoch, canister>>

VectorAdd(ids, vecs) ==
    \E i \in ids, v \in vecs :
        LET r == IcpVectorStorage_add(VECTORS, VECTOR_DIM, i, v) IN
        /\ VECTORS' = r.vectors
        /\ last' = [op |-> "add", id |-> i, vector |-> v, ret |-> r.ret]
        /\ UNCHANGED <<DATA, heap, now, epoch>>

VectorRemove(ids) ==
    \E i \in ids :
        /\ VECTORS' = IcpVectorStorage_remove(VECTORS, i)
        /\ last' = [op |-> "remove", id |-> i, ret |-> Ok(Unit)]
        /\ UNCHANGED <<DATA, heap, now, epoch>>

VectorSearch(vecs, ks, thresholds) ==
    \E q \in vecs, k \in ks, t \in thresholds :
        /\ last' = [op |-> "search", query |-> q, k |-> k, threshold |-> t,
                    ret |-> IcpVectorStorage_search(VECTORS, VECTOR_DIM, q, k, t)]
        /\ UNCHANGED <<DATA, VECTORS, heap, now, epoch>>

VectorClear ==
    /\ VECTORS' = IcpVectorStorage_clear(VECTORS)
    /\ last' = [op |-> "vector_clear", ret |-> Ok(Unit)]
    /\ UNCHANGED <<DATA, heap, now, epoch>>

---------------------------------------------------------------------------
\* IcpDatabaseAdapter; self is the handle the caller holds

CreateDatabaseAdapter(agents) ==
    \E a \in agents :
        LET r == create_database_adapter(ADAPTER, VECTOR_DIM, a) IN
        /\ ADAPTER' = r.adapter
        /\ VECTOR_DIM' = r.dim
        /\ handle' = Some(r.ret)
        /\ last' = [op |-> "create_database_adapter", agent_id |-> a, ret |-> r.ret]
        /\ UNCHANGED <<DATA, VECTORS, CACHE, COUNTER, bridge, now, epoch, canister>>

\* IcpDatabaseAdapter::new called directly: a handle that is not the global one
AdapterNew(agents) ==
    \E a \in agents :
        /\ handle' = Some(IcpDatabaseAdapter_new(a))
        /\ last' = [op |-> "new", agent_id |-> a]
        /\ UNCHANGED <<DATA, VECTORS, CACHE, VECTOR_DIM, ADAPTER, COUNTER, bridge, now, epoch, canister>>

\* init that empties the Vector Index before it sets the dimension
AdapterInitClearing ==
    /\ handle # None
    /\ LET r == IcpDatabaseAdapter_init(handle[2]) IN
        /\ handle' = Some(r.self)
        /\ VECTOR_DIM' = r.dim
        /\ VECTORS' = IcpVectorStorage_clear(VECTORS)
        /\ last' = [op |-> "init", ret |-> Ok(Unit)]
    /\ UNCHANGED <<DATA, CACHE, ADAPTER, COUNTER, bridge, now, epoch, canister>>

AdapterInit ==
    /\ handle # None
    /\ LET r == IcpDatabaseAdapter_init(handle[2]) IN
        /\ handle' = Some(r.self)
        /\ VECTOR_DIM' = r.dim
        /\ last' = [op |-> "init", ret |-> Ok(Unit)]
    /\ UNCHANGED <<DATA, VECTORS, CACHE, ADAPTER, COUNTER, bridge, now, epoch, canister>>

AdapterClose ==
    /\ handle # None
    /\ LET r == IcpDatabaseAdapter_close(handle[2], VECTORS, CACHE) IN
        /\ handle' = Some(r.self)
        /\ VECTORS' = r.vectors
        /\ CACHE' = r.cache
        /\ last' = [op |-> "close", ret |-> Ok(Unit)]
    /\ UNCHANGED <<DATA, VECTOR_DIM, ADAPTER, COUNTER, bridge, now, epoch, canister>>

EnsureEmbeddingDimension(dims) ==
    /\ handle # None
    /\ \E d \in dims :
        LET r == IcpDatabaseAdapter_ensure_embedding_dimension(handle[2], VECTOR_DIM, d) IN
        /\ handle' = Some(r.self)
        /\ VECTOR_DIM' = r.dim
        /\ last' = [op |-> "ensure_embedding_dimension", dimension |-> d, ret |-> Ok(Unit)]
    /\ UNCHANGED <<DATA, VECTORS, CACHE, ADAPTER, COUNTER, bridge, now, epoch, canister>>

\* whether create_memory calls generate_uuid for this document
needs_uuid(doc) == as_str(get_field(doc, "id")) = None

\* inputs are records [memory, table_name, unique].  A document that is no JSON
\* object, or whose metadata is no object, makes create_memory panic; the call
\* then traps and changes nothing, so such inputs are left out.
CreateMemory(inputs) ==
    /\ handle # None
    /\ \E in \in inputs :
        /\ is_object(in.memory)
        /\ get_field(in.memory, "metadata") # None => is_object(get_field(in.memory, "metadata")[2])
        /\ needs_uuid(in.memory) => COUNTER < MaxUuid
        /\ LET counter == IF needs_uuid(in.memory) THEN COUNTER + 1 ELSE COUNTER
               uuid == IF needs_uuid(in.memory) THEN generate_uuid(now, counter) ELSE <<>>
               r == IcpDatabaseAdapter_create_memory(handle[2], DATA, VECTORS, VECTOR_DIM,
                                                     in, uuid, now_millis(now))
           IN  /\ COUNTER' = counter
               /\ DATA' = r.data
               /\ VECTORS' = r.vectors
               /\ last' = [op |-> "create_memory", memory |-> in.memory,
                           table_name |-> in.table_name, unique |-> in.unique,
                           dim |-> VECTOR_DIM, ret |-> r.ret]
    /\ UNCHANGED <<CACHE, VECTOR_DIM, ADAPTER, handle, bridge, now, epoch, canister>>

DeleteMemory(ids) ==
    /\ handle # None
    /\ \E i \in ids :
        LET r == IcpDatabaseAdapter_delete_memory(DATA, VECTORS, i) IN
        /\ DATA' = r.data
        /\ VECTORS' = r.vectors
        /\ last' = [op |-> "delete_memory", id |-> i,
                    found |-> <<IcpDatabaseAdapter_get_memory_by_id(DATA, i) # None,
                                i \in DOMAIN VECTORS>>,
                    ret |-> Ok(Unit)]
    /\ UNCHANGED <<heap, now, epoch>>

BridgeNew(agents) ==
    \E a \in agents :
        /\ bridge' = Some(IcpElizaAdapter_new(a))
        /\ last' = [op |-> "bridge_new", agent_id |-> a]
        /\ UNCHANGED <<DATA, VECTORS, CACHE, VECTOR_DIM, ADAPTER, COUNTER, handle, now, epoch, canister>>

BridgeInit ==
    /\ bridge # None
    /\ LET r == IcpElizaAdapter_init(bridge[2]) IN
        /\ bridge' = Some(r.self)
        /\ VECTOR_DIM' = r.dim
        /\ last' = [op |-> "bridge_init", ret |-> Ok(Unit)]
    /\ UNCHANGED <<DATA, VECTORS, CACHE, ADAPTER, COUNTER, handle, now, epoch, canister>>

BridgeClose ==
    /\ bridge # None
    /\ LET r == IcpElizaAdapter_close(bridge[2], VECTORS, CACHE) IN
        /\ bridge' = Some(r.self)
        /\ VECTORS' = r.vectors
        /\ CACHE' = r.cache
        /\ last' = [op |-> "bridge_close", ret |-> Ok(Unit)]
    /\ UNCHANGED <<DATA, VECTOR_DIM, ADAPTER, COUNTER, handle, now, epoch, canister>>

\* IcpElizaAdapter::create_memory: the inner adapter's create_memory
BridgeCreateMemory(inputs) ==
    /\ bridge # None
    /\ \E in \in inputs :
        /\ is_object(in.memory)
        /\ get_field(in.memory, "metadata") # None => is_object(get_field(in.memory, "metadata")[2])
        /\ needs_uuid(in.memory) => COUNTER < MaxUuid
        /\ LET counter == IF needs_uuid(in.memory) THEN COUNTER + 1 ELSE COUNTER
               uuid == IF needs_uuid(in.memory) THEN generate_uuid(now, counter) ELSE <<>>
               r == IcpDatabaseAdapter_create_memory(bridge[2].inner, DATA, VECTORS,
                                                     VECTOR_DIM, in, uuid, now_millis(now))
           IN  /\ COUNTER' = counter
               /\ DATA' = r.data
               /\ VECTORS' = r.vectors
               /\ last' = [op |-> "bridge_create_memory", memory |-> in.memory,
                           table_name |-> in.table_name, unique |-> in.unique,
                           dim |-> VECTOR_DIM, ret |-> r.ret]
    /\ UNCHANGED <<CACHE, VECTOR_DIM, ADAPTER, handle, bridge, now, epoch, canister>>

\* IcpElizaAdapter::delete_memory: the inner adapter's delete_memory
BridgeDeleteMemory(ids) ==
    /\ bridge # None
    /\ \E i \in ids :
        LET r == IcpDatabaseAdapter_delete_memory(DATA, VECTORS, i) IN
        /\ DATA' = r.data
        /\ VECTORS' = r.vectors
        /\ last' = [op |-> "bridge_delete_memory", id |-> i, ret |-> Ok(Unit)]
    /\ UNCHANGED <<heap, now, epoch>>

\* queries are records [table_name, embedding, match_threshold, count, room_id,
\* world_id, entity_id, unique]
SearchMemories(queries) ==
    /\ handle # None
    /\ \E q \in queries :
        last' = [op |-> "search_memories", query |-> q,
                 ret |-> IcpDatabaseAdapter_search_memories(DATA, VECTORS, VECTOR_DIM, q)]
    /\ UNCHANGED <<DATA, VECTORS, heap, now, epoch>>

\* queries are records [entity_id, agent_id, room_id, world_id, table_name,
\* count, offset]
GetMemories(queries) ==
    /\ handle # None
    /\ \E q \in queries :
        last' = [op |-> "get_memories", query |-> q,
                 ret |-> Ok(IcpDatabaseAdapter_get_memories(DATA, q))]
    /\ UNCHANGED <<DATA, VECTORS, heap, now, epoch>>

CreateRoom(rooms) ==
    /\ handle # None
    /\ \E room \in rooms :
        /\ is_object(room)
        /\ needs_uuid(room) => COUNTER < MaxUuid
        /\ LET counter == IF needs_uuid(room) THEN COUNTER + 1 ELSE COUNTER
               uuid == IF needs_uuid(room) THEN generate_uuid(now, counter) ELSE <<>>
               r == IcpDatabaseAdapter_create_room(DATA, room, uuid)
           IN  /\ COUNTER' = counter
               /\ DATA' = r.data
               /\ last' = [op |-> "create_room", room |-> room, ret |-> r.ret]
    /\ UNCHANGED <<VECTORS, CACHE, VECTOR_DIM, ADAPTER, handle, bridge, now, epoch, canister>>

CreateEntity(entities) ==
    /\ handle # None
    /\ \E entity \in entities :
        /\ is_object(entity)
        /\ needs_uuid(entity) => COUNTER < MaxUuid
        /\ LET counter == IF needs_uuid(entity) THEN COUNTER + 1 ELSE COUNTER
               uuid == IF needs_uuid(entity) THEN generate_uuid(now, counter) ELSE <<>>
               r == IcpDatabaseAdapter_create_entity(DATA, entity, uuid)
           IN  /\ COUNTER' = counter
               /\ DATA' = r.data
               /\ last' = [op |-> "create_entity", entity |-> entity, ret |-> r.ret]
    /\ UNCHANGED <<VECTORS, CACHE, VECTOR_DIM, ADAPTER, handle, bridge, now, epoch, canister>>

DeleteRoom(ids) ==
    /\ handle # None
    /\ \E i \in ids :
        /\ DATA' = IcpDatabaseAdapter_delete_room(DATA, i)
        /\ last' = [op |-> "delete_room", id |-> i,
                    found |-> <<IcpDatabaseAdapter_get_room(DATA, i) # None,
                                IcpMemoryStorage_count(DATA, COLLECTIONS_MEMORIES,
                                                       Some(<<"room_id_is", i>>)),
                                IcpMemoryStorage_count(DATA, COLLECTIONS_PARTICIPANTS,
                                                       Some(<<"room_id_is", i>>))>>,
                    ret |-> Ok(Unit)]
    /\ UNCHANGED <<VECTORS, heap, now, epoch>>

CreateAgent(docs) ==
    /\ handle # None
    /\ \E agent \in docs :
        LET r == IcpDatabaseAdapter_create_agent(DATA, agent) IN
        /\ DATA' = r.data
        /\ last' = [op |-> "create_agent", agent |-> agent, ret |-> r.ret]
    /\ UNCHANGED <<VECTORS, heap, now, epoch>>

UpdateAgent(ids, patches) ==
    /\ handle # None
    /\ \E i \in ids, agent \in patches :
        LET r == IcpDatabaseAdapter_update_agent(DATA, i, agent) IN
        /\ DATA' = r.data
        /\ last' = [op |-> "update_agent", agent_id |-> i, agent |-> agent, ret |-> r.ret]
    /\ UNCHANGED <<VECTORS, heap, now, epoch>>

DeleteAgent(ids) ==
    /\ handle # None
    /\ \E i \in ids :
        LET r == IcpDatabaseAdapter_delete_agent(DATA, i) IN
        /\ DATA' = r.data
        /\ last' = [op |-> "delete_agent", agent_id |-> i, ret |-> r.ret]
    /\ UNCHANGED <<VECTORS, heap, now, epoch>>

GetCache(keys) ==
    /\ handle # None
    /\ \E k \in keys :
        LET r == IcpDatabaseAdapter_get_cache(DATA, k, now_millis(now)) IN
        /\ DATA' = r.data
        /\ last' = [op |-> "get_cache", key |-> k,
                    found |-> IcpMemoryStorage_get(DATA, COLLECTIONS_CACHE, k),
                    ret |-> r.ret]
    /\ UNCHANGED <<VECTORS, heap, now, epoch>>

SetCache(keys, values) ==
    /\ handle # None
    /\ \E k \in keys, v \in values :
        LET r == IcpDatabaseAdapter_set_cache(DATA, k, v) IN
        /\ DATA' = r.data
        /\ last' = [op |-> "set_cache", key |-> k, value |-> v, ret |-> r.ret]
    /\ UNCHANGED <<VECTORS, heap, now, epoch>>

DeleteCache(keys) ==
    /\ handle # None
    /\ \E k \in keys :
        LET r == IcpDatabaseAdapter_delete_cache(DATA, k) IN
        /\ DATA' = r.data
        /\ last' = [op |-> "delete_cache", key |-> k, ret |-> r.ret]
    /\ UNCHANGED <<VECTORS, heap, now, epoch>>

\* the adapter's reads that are one call of a Collection Store or Vector Index
\* read; names are the method names
AdapterRead(names, ids) ==
    /\ handle # None
    /\ \E name \in names, i \in ids :
        last' = [op |-> name, id |-> i,
                 ret |-> CASE name = "get_agent" -> Ok(IcpDatabaseAdapter_get_agent(DATA, i))
                           [] name = "get_agents" -> Ok(IcpDatabaseAdapter_get_agents(DATA))
                           [] name = "get_memory_by_id" ->
                                  Ok(IcpDatabaseAdapter_get_memory_by_id(DATA, i))
                           [] name = "get_room" -> Ok(IcpDatabaseAdapter_get_room(DATA, i))
                           [] name = "get_rooms_by_ids" ->
                                  Ok(IcpDatabaseAdapter_get_rooms_by_ids(DATA, <<i, i>>))
                           [] name = "get_entity" -> Ok(IcpDatabaseAdapter_get_entity(DATA, i))
                           [] name = "memory_count" -> IcpDatabaseAdapter_memory_count(DATA)
                           [] name = "is_ready" -> IcpDatabaseAdapter_is_ready(handle[2])
                           [] name = "size" -> IcpVectorStorage_size(VECTORS)]
    /\ UNCHANGED <<DATA, VECTORS, heap, now, epoch>>

---------------------------------------------------------------------------
\* lib.rs: canister entry points.  `running` holds the synchronous call that
\* has executed some of its statements: its name, its argument, the number of
\* statements done and the maps it started with.

\* calls of generate_uuid per process lifetime, where chat is among the callers
MaxCounter == 3

\* the principal of the caller, as text
Caller == <<"c">>

\* no call is in the middle of its statements, so the next call always starts
\* right away
IdleAlways == TRUE

\* no call is in the middle of its statements: a call starts only then
Idle == running = None

InitAgent(characters) ==
    /\ Idle
    /\ \E character \in characters :
        /\ AGENT_STATE = None => COUNTER < MaxCounter
        /\ LET counter == IF AGENT_STATE = None THEN COUNTER + 1 ELSE COUNTER
               uuid == IF AGENT_STATE = None THEN generate_uuid(now, counter) ELSE <<>>
               r == init_agent(AGENT_STATE, DATA, ADAPTER, VECTOR_DIM, character, uuid,
                               now_millis(now))
           IN  /\ COUNTER' = counter
               /\ AGENT_STATE' = r.state
               /\ DATA' = r.data
               /\ ADAPTER' = r.adapter
               /\ VECTOR_DIM' = r.dim
               /\ last' = [op |-> "init_agent", character |-> character, ret |-> r.ret]
    /\ UNCHANGED <<VECTORS, CACHE, bridge, handle, now, epoch, INFERENCE_MODE, running, calls>>

SetInferenceMode(modes) ==
    /\ Idle
    /\ \E mode \in modes :
        /\ INFERENCE_MODE' = IF ensure_initialized(AGENT_STATE)[1] = "Err"
                             THEN INFERENCE_MODE ELSE mode
        /\ last' = [op |-> "set_inference_mode", mode |-> mode,
                    ret |-> IF ensure_initialized(AGENT_STATE)[1] = "Err"
                            THEN ensure_initialized(AGENT_STATE) ELSE Ok(Unit)]
    /\ UNCHANGED <<DATA, VECTORS, CACHE, VECTOR_DIM, ADAPTER, COUNTER, bridge, handle,
                   now, epoch, AGENT_STATE, running, calls>>

\* whether this chat call gets as far as storing the user's message
chat_stores(request) ==
    AGENT_STATE # None /\ ~trim_is_empty(request.message)

\* chat from its first statement to its return or, in a mode that asks another
\* canister for the response, to its await.  In the ElizaClassic mode the
\* response is computed in place and the call returns without waiting.
Chat(requests, responses) ==
    /\ Idle
    /\ \E request \in requests, response \in responses :
        /\ chat_stores(request) =>
               COUNTER + (IF INFERENCE_MODE = ElizaClassic THEN 1 ELSE 0) < MaxCounter
        /\ \E r \in {chat_begin(AGENT_STATE, DATA, VECTORS, ADAPTER, VECTOR_DIM, request,
                                 Caller, generate_uuid(now, COUNTER + 1),
                                 now_millis(now))} :
            /\ ADAPTER' = r.adapter
            /\ VECTOR_DIM' = r.dim
            /\ IF r.ret[1] = "Err"
               THEN /\ DATA' = r.data
                    /\ VECTORS' = r.vectors
                    /\ last' = [op |-> "chat", request |-> request, ret |-> r.ret]
                    /\ UNCHANGED <<COUNTER, AGENT_STATE, calls>>
               ELSE IF INFERENCE_MODE = ElizaClassic
               THEN \E f \in {chat_finish(AGENT_STATE, r.data, r.vectors, r.dim, r.ret[2],
                                           response, generate_uuid(now, COUNTER + 2),
                                           now_millis(now))} :
                        /\ DATA' = f.data
                        /\ VECTORS' = f.vectors
                        /\ COUNTER' = COUNTER + 2
                        /\ AGENT_STATE' = f.state
                        /\ last' = [op |-> "chat", request |-> request,
                                    user_message_id |-> r.ret[2].user_message_id,
                                    ret |-> f.ret]
                        /\ UNCHANGED calls
               ELSE /\ DATA' = r.data
                    /\ VECTORS' = r.vectors
                    /\ COUNTER' = COUNTER + 1
                    /\ calls' = calls \cup {r.ret[2]}
                    /\ last' = [op |-> "chat_await", request |-> request]
                    /\ UNCHANGED AGENT_STATE
    /\ UNCHANGED <<CACHE, bridge, handle, now, epoch, INFERENCE_MODE, running>>

\* a suspended chat call gets its response and runs to its return
ChatResume(responses) ==
    /\ Idle
    /\ COUNTER < MaxCounter
    /\ \E held \in calls, response \in responses :
        \E f \in {chat_finish(AGENT_STATE, DATA, VECTORS, VECTOR_DIM, held, response,
                               generate_uuid(now, COUNTER + 1), now_millis(now))} :
            /\ DATA' = f.data
            /\ VECTORS' = f.vectors
            /\ COUNTER' = COUNTER + 1
            /\ AGENT_STATE' = f.state
            /\ calls' = calls \ {held}
            /\ last' = [op |-> "chat", request |-> held.request,
                        user_message_id |-> held.user_message_id, ret |-> f.ret]
    /\ UNCHANGED <<CACHE, VECTOR_DIM, ADAPTER, bridge, handle, now, epoch, INFERENCE_MODE,
                   running>>

\* delete_room up to the end of its first statement
DeleteRoomCall(ids) ==
    /\ Idle
    /\ \E id \in ids :
        IF ensure_initialized(AGENT_STATE)[1] = "Err"
        THEN /\ last' = [op |-> "delete_room", id |-> id,
                         ret |-> ensure_initialized(AGENT_STATE)]
             /\ UNCHANGED <<DATA, ADAPTER, VECTOR_DIM, running>>
        ELSE LET made == create_database_adapter(ADAPTER, VECTOR_DIM, AGENT_STATE[2].agent_id)
             IN  /\ ADAPTER' = made.adapter
                 /\ VECTOR_DIM' = made.dim
                 /\ DATA' = delete_room_statement(DATA, id, 1)
                 /\ running' = Some([op |-> "delete_room", id |-> id, pc |-> 1,
                                     data |-> DATA, vectors |-> VECTORS])
                 /\ UNCHANGED last
    /\ UNCHANGED <<VECTORS, CACHE, COUNTER, bridge, handle, now, epoch, AGENT_STATE,
                   INFERENCE_MODE, calls>>

\* the next statement of the delete_room that is running, and its return after
\* the last one
DeleteRoomStep ==
    /\ running # None
    /\ running[2].op = "delete_room"
    /\ DATA' = delete_room_statement(DATA, running[2].id, running[2].pc + 1)
    /\ IF running[2].pc + 1 = statements("delete_room")
       THEN /\ running' = None
            /\ last' = [op |-> "delete_room", id |-> running[2].id, ret |-> Ok(Unit)]
       ELSE /\ running' = Some([running[2] EXCEPT !.pc = @ + 1])
            /\ UNCHANGED last
    /\ UNCHANGED <<VECTORS, CACHE, VECTOR_DIM, ADAPTER, COUNTER, bridge, handle, now, epoch,
                   AGENT_STATE, INFERENCE_MODE, calls>>

\* delete_memory up to the end of its first statement
DeleteMemoryCall(ids) ==
    /\ Idle
    /\ \E id \in ids :
        IF ensure_initialized(AGENT_STATE)[1] = "Err"
        THEN /\ last' = [op |-> "delete_memory", id |-> id,
                         ret |-> ensure_initialized(AGENT_STATE)]
             /\ UNCHANGED <<DATA, ADAPTER, VECTOR_DIM, running>>
        ELSE LET made == create_database_adapter(ADAPTER, VECTOR_DIM, AGENT_STATE[2].agent_id)
             IN  /\ ADAPTER' = made.adapter
                 /\ VECTOR_DIM' = made.dim
                 /\ DATA' = delete_memory_statement(DATA, VECTORS, id, 1).data
                 /\ running' = Some([op |-> "delete_memory", id |-> id, pc |-> 1,
                                     data |-> DATA, vectors |-> VECTORS])
                 /\ UNCHANGED last
    /\ UNCHANGED <<VECTORS, CACHE, COUNTER, bridge, handle, now, epoch, AGENT_STATE,
                   INFERENCE_MODE, calls>>

\* the second statement of the delete_memory that is running, and its return
DeleteMemoryStep ==
    /\ running # None
    /\ running[2].op = "delete_memory"
    /\ VECTORS' = delete_memory_statement(DATA, VECTORS, running[2].id, 2).vectors
    /\ running' = None
    /\ last' = [op |-> "delete_memory", id |-> running[2].id, ret |-> Ok(Unit)]
    /\ UNCHANGED <<DATA, CACHE, VECTOR_DIM, ADAPTER, COUNTER, bridge, handle, now, epoch,
                   AGENT_STATE, INFERENCE_MODE, calls>>

\* a query: what it does to the heap is dropped when it returns
GetRooms ==
    /\ Idle
    /\ last' = [op |-> "get_rooms", ret |-> get_rooms(AGENT_STATE, DATA)]
    /\ UNCHANGED <<DATA, VECTORS, heap, now, epoch>>

UpdateCharacter(characters) ==
    /\ Idle
    /\ \E config \in characters :
        /\ AGENT_STATE' = update_character(AGENT_STATE, config).state
        /\ last' = [op |-> "update_character", config |-> config,
                    ret |-> update_character(AGENT_STATE, config).ret]
    /\ UNCHANGED <<DATA, VECTORS, CACHE, VECTOR_DIM, ADAPTER, COUNTER, bridge, handle,
                   now, epoch, INFERENCE_MODE, running, calls>>

\* a query
GetAgentState ==
    /\ Idle
    /\ last' = [op |-> "get_agent_state", ret |-> get_agent_state(AGENT_STATE)]
    /\ UNCHANGED <<DATA, VECTORS, heap, now, epoch>>

CreateRoomCall(names) ==
    /\ Idle
    /\ \E name \in names :
        /\ AGENT_STATE # None => COUNTER < MaxCounter
        /\ \E r \in {create_room(AGENT_STATE, DATA, ADAPTER, VECTOR_DIM, name,
                                  generate_uuid(now, COUNTER + 1), now_millis(now))} :
            /\ DATA' = r.data
            /\ ADAPTER' = r.adapter
            /\ VECTOR_DIM' = r.dim
            /\ COUNTER' = IF AGENT_STATE # None THEN COUNTER + 1 ELSE COUNTER
            /\ last' = [op |-> "create_room", name |-> name, ret |-> r.ret]
    /\ UNCHANGED <<VECTORS, CACHE, bridge, handle, now, epoch, AGENT_STATE, INFERENCE_MODE,
                   running, calls>>

\* whether this create_memory call gets as far as generate_uuid
create_memory_needs_uuid(memory_json) ==
    /\ AGENT_STATE # None
    /\ from_slice(memory_json)[1] = "Ok"
    /\ needs_uuid(from_slice(memory_json)[2])

\* texts are JSON texts of objects, or no JSON at all
CreateMemoryCall(texts, tables) ==
    /\ Idle
    /\ \E memory_json \in texts, table_name \in tables :
        /\ from_slice(memory_json)[1] = "Ok" => is_object(from_slice(memory_json)[2])
        /\ create_memory_needs_uuid(memory_json) => COUNTER < MaxCounter
        /\ \E r \in {create_memory(AGENT_STATE, DATA, VECTORS, ADAPTER, VECTOR_DIM,
                                    memory_json, table_name, FALSE,
                                    generate_uuid(now, COUNTER + 1), now_millis(now))} :
            /\ DATA' = r.data
            /\ VECTORS' = r.vectors
            /\ ADAPTER' = r.adapter
            /\ VECTOR_DIM' = r.dim
            /\ COUNTER' = IF create_memory_needs_uuid(memory_json)
                          THEN COUNTER + 1 ELSE COUNTER
            /\ last' = [op |-> "create_memory", memory_json |-> memory_json,
                        table_name |-> table_name, ret |-> r.ret]
    /\ UNCHANGED <<CACHE, bridge, handle, now, epoch, AGENT_STATE, INFERENCE_MODE,
                   running, calls>>


(***************************************************************************)
(* SpecStore: the Collection Store called directly                         *)
(***************************************************************************)
StoreCollections == {COLLECTIONS_CACHE, COLLECTIONS_ROOMS}

StoreIds == {<<"a">>, <<"b">>}

StoreDocs ==
    { JNull,
      JNum(3),
      Doc([name |-> Str(<<"x">>)]),
      Doc([id |-> Str(<<"a">>),
           value |-> JArr(<<JNum(1), JBool(TRUE), JNull, Doc([text |-> Str(<<>>)])>>),
           metadata |-> Doc(EmptyMap)]) }

StoreIdLists == {<<>>, <<<<"a">>, <<"b">>>>, <<<<"b">>, <<"b">>>>}

StorePredicates == {<<"any">>, <<"none">>, <<"is_object">>, <<"has_name">>}

NextStore ==
    \/ StorageSet(StoreCollections, StoreIds, StoreDocs)
    \/ StorageGet(StoreCollections, StoreIds)
    \/ StorageDelete(StoreCollections, StoreIds)
    \/ StorageDeleteMany(StoreCollections, StoreIdLists)
    \/ StorageDeleteWhere(StoreCollections, StorePredicates)
    \/ StorageClear

SpecStore == Init /\ [][NextStore]_vars

\* whether the call recorded in l is one that may affect key (c, i)
Affects(l, c, i) ==
    CASE l.op = "set"          -> l.collection = c /\ l.id = i
      [] l.op = "delete"       -> l.collection = c /\ l.id = i
      [] l.op = "delete_many"  -> l.collection = c /\ i \in Range(l.ids)
      [] l.op = "delete_where" -> l.collection = c
      [] l.op = "clear"        -> TRUE
      [] OTHER                 -> FALSE

\* C1 (round trip): right after set(c, i, d), get(c, i) is Some(d), the document
\* exactly as written; and get(c, i) changes only in a step that is a set,
\* delete, delete_many, delete_where or clear affecting key (c, i).
C1_RoundTrip ==
    /\ [](last.op = "set" =>
            IcpMemoryStorage_get(DATA, last.collection, last.id) = Some(last.doc))
    /\ [][\A c \in StoreCollections, i \in StoreIds :
            IcpMemoryStorage_get(DATA, c, i)' # IcpMemoryStorage_get(DATA, c, i)
                => Affects(last', c, i)]_vars

\* a nested document was written, other calls on other keys followed, and a get
\* reads it back
C1_Witness ==
    /\ last.op = "get"
    /\ last.ret = Ok(Some(Doc([id |-> Str(<<"a">>),
           value |-> JArr(<<JNum(1), JBool(TRUE), JNull, Doc([text |-> Str(<<>>)])>>),
           metadata |-> Doc(EmptyMap)])))
    /\ Cardinality(DOMAIN DATA) >= 3

(***************************************************************************)
(* SpecVec: the Vector Index called directly                               *)
(***************************************************************************)
\* the largest k of a search
MaxK == 2

VecIds == {<<"a">>, <<"b">>, <<"c">>}

VecDims == {2, 3}

Vecs == {<<1, 0>>, <<1, 1>>, <<-1, 0>>, <<0, 0>>, <<1, 0, 0>>}

Queries == {<<1, 0>>, <<1, 1>>, <<1, 0, 0>>}

Ks == 0..MaxK

Thresholds == {-Scale, DefaultThreshold, Scale}

NextVec ==
    \/ VectorInit(VecDims)
    \/ VectorAdd(VecIds, Vecs)
    \/ VectorRemove(VecIds)
    \/ VectorSearch(Queries, Ks, Thresholds)
    \/ VectorClear

SpecVec == Init /\ [][NextVec]_vars

\* C7 (dimension enforcement): add and search with a vector whose length is not
\* the configured dimension return DimensionMismatch{expected: dim, actual: len}
\* and leave the records and the dimension as they were.
C7_DimensionEnforced ==
    [][/\ (last'.op = "add" /\ Len(last'.vector) # VECTOR_DIM) =>
            /\ last'.ret = Err(DimensionMismatch(VECTOR_DIM, Len(last'.vector)))
            /\ VECTORS' = VECTORS
            /\ VECTOR_DIM' = VECTOR_DIM
       /\ (last'.op = "search" /\ Len(last'.query) # VECTOR_DIM) =>
            /\ last'.ret = Err(DimensionMismatch(VECTOR_DIM, Len(last'.query)))
            /\ VECTORS' = VECTORS
            /\ VECTOR_DIM' = VECTOR_DIM]_vars

\* the scenario: dimension 3, a search with two components fails, and the index
\* holds records
C7_Witness ==
    /\ last.op = "search"
    /\ VECTOR_DIM = 3
    /\ last.ret = Err(DimensionMismatch(3, 2))
    /\ VECTORS # EmptyMap

\* C8 (top-k and threshold): a search that succeeds returns records of the index
\* with their similarity to the query, each >= t, in non-increasing similarity
\* order, no id twice, and at most k of them.
C8_TopKThreshold ==
    (last.op = "search" /\ last.ret[1] = "Ok") =>
        LET r == last.ret[2] IN
        /\ Len(r) <= last.k
        /\ \A i \in 1..Len(r) :
            /\ r[i].id \in DOMAIN VECTORS
            /\ r[i].similarity = cosine_similarity(last.query, VECTORS[r[i].id])
            /\ r[i].similarity >= last.threshold
        /\ \A i, j \in 1..Len(r) :
            /\ i < j => r[i].similarity >= r[j].similarity
            /\ i # j => r[i].id # r[j].id

\* three records, two returned in strictly decreasing order, the third cut off
\* by k although it passes the threshold
C8_Witness ==
    /\ last.op = "search" /\ last.ret[1] = "Ok"
    /\ last.k = 2 /\ Len(last.ret[2]) = 2
    /\ last.ret[2][1].similarity > last.ret[2][2].similarity
    /\ Cardinality({i \in DOMAIN VECTORS :
            cosine_similarity(last.query, VECTORS[i]) >= last.threshold}) = 3


(***************************************************************************)
(* Spec: the adapter's lifecycle and its memories with embeddings          *)
(***************************************************************************)
Agents == {<<"a", "1">>}

AdapterDims == {2, 3}

m1 == <<"m", "1">>

m2 == <<"m", "2">>

m3 == <<"m", "3">>

r1 == <<"r", "1">>

r2 == <<"r", "2">>

e1 == <<"e", "1">>

e2 == <<"e", "2">>

Embedding(v) == JArr([i \in 1..Len(v) |-> JNum(v[i])])

CreateInput(memory, table_name, unique) ==
    [memory |-> memory, table_name |-> table_name, unique |-> unique]

messages == <<"m", "s", "g", "s">>

facts == <<"f", "a", "c", "t", "s">>

\* the last one is the document of the create-and-retrieve scenario, with the
\* embedding inside content and in tenths
LifeInputs ==
    { CreateInput(Doc([id |-> Str(m1), roomId |-> Str(r1), createdAt |-> JNum(100),
                       embedding |-> Embedding(<<1, 0>>)]), messages, FALSE),
      CreateInput(Doc([id |-> Str(m2), roomId |-> Str(r1), createdAt |-> JNum(200),
                       embedding |-> Embedding(<<1, 2, 3>>)]), messages, FALSE),
      CreateInput(Doc([id |-> Str(m1), entityId |-> Str(e1), roomId |-> Str(r1),
                       createdAt |-> JNum(300),
                       content |-> Doc([text |-> Str(<<"h", "i">>),
                                        embedding |-> Embedding(<<1, 2, 3>>)])]),
                  messages, FALSE),
      CreateInput(Doc([roomId |-> Str(r2), embedding |-> Embedding(<<0, 1>>)]),
                  facts, TRUE) }

LifeIds == {m1, m2}

Next ==
    \/ CreateDatabaseAdapter(Agents)
    \/ AdapterInit
    \/ AdapterClose
    \/ EnsureEmbeddingDimension(AdapterDims)
    \/ CreateMemory(LifeInputs)
    \/ DeleteMemory(LifeIds)
    \/ Restart

Spec == Init /\ [][Next]_vars

\* C2 (restart durability): a restart, and the create_database_adapter / init()
\* that follow it, leave every document and every vector record as they were.
C2_RestartDurable ==
    [][last'.op \in {"restart", "create_database_adapter", "init"} =>
            /\ DATA' = DATA
            /\ VECTORS' = VECTORS]_vars

\* after a restart the adapter has been created again and documents and vector
\* records are there
C2_Witness ==
    /\ epoch = 1
    /\ last.op = "create_database_adapter"
    /\ DATA # EmptyMap
    /\ VECTORS # EmptyMap

\* C3 (close clears only non-durable state): close() leaves every document and
\* every vector record as it was.
C3_ClosePreservesDurable ==
    [][last'.op = "close" => DATA' = DATA /\ VECTORS' = VECTORS]_vars

\* C5 (delete_memory): afterwards the memory document and the vector record of
\* the id are gone, the result is Ok, and every other memory document and vector
\* record is as it was.
C5_DeleteMemory ==
    [][last'.op = "delete_memory" =>
            LET i == last'.id
                key == make_key(COLLECTIONS_MEMORIES, i)
            IN  /\ last'.ret = Ok(Unit)
                /\ IcpDatabaseAdapter_get_memory_by_id(DATA', i) = None
                /\ i \notin DOMAIN VECTORS'
                /\ DOMAIN DATA' = DOMAIN DATA \ {key}
                /\ \A k \in DOMAIN DATA' : DATA'[k] = DATA[k]
                /\ DOMAIN VECTORS' = DOMAIN VECTORS \ {i}
                /\ \A k \in DOMAIN VECTORS' : VECTORS'[k] = VECTORS[k]]_vars

\* a memory that had a document and a vector record was deleted, and another
\* memory's document and vector record are still there
C5_Witness ==
    /\ last.op = "delete_memory"
    /\ last.found = <<TRUE, TRUE>>
    /\ DATA # EmptyMap
    /\ VECTORS # EmptyMap

\* the numbers of a document's field that holds a list of numbers, or <<>>
NumbersAt(o) ==
    IF o # None /\ o[2][1] = "arr" /\ \A i \in 1..Len(o[2][2]) : o[2][2][i][1] = "num"
    THEN [i \in 1..Len(o[2][2]) |-> o[2][2][i][2]]
    ELSE <<>>

ContentEmbedding(memory) ==
    LET content == get_field(memory, "content")
    IN  IF content = None THEN <<>> ELSE NumbersAt(get_field(content[2], "embedding"))

TopLevelEmbedding(memory) == NumbersAt(get_field(memory, "embedding"))

p1 == <<"p", "1">>

p2 == <<"p", "2">>

w1 == <<"w", "1">>

a2 == <<"a", "2">>

RoomIds == {r1, r2}

RoomDocs == {Doc([id |-> Str(r1), name |-> Str(<<"a">>)]), Doc([id |-> Str(r2)])}

ParticipantIds == {p1, p2}

ParticipantDocs == {Doc([roomId |-> Str(r1), entityId |-> Str(e1)]), Doc([roomId |-> Str(r2)])}

\* the first three are the documents of the ordering scenario
RoomInputs ==
    { CreateInput(Doc([id |-> Str(m1), entityId |-> Str(e1), roomId |-> Str(r1),
                       createdAt |-> JNum(100)]), messages, FALSE),
      CreateInput(Doc([id |-> Str(m2), entityId |-> Str(e1), roomId |-> Str(r1),
                       worldId |-> Str(w1), createdAt |-> JNum(300)]), messages, FALSE),
      CreateInput(Doc([id |-> Str(m3), entityId |-> Str(e2), roomId |-> Str(r1),
                       createdAt |-> JNum(200)]), messages, FALSE),
      CreateInput(Doc([id |-> Str(m3), entityId |-> Str(e1), roomId |-> Str(r2),
                       agentId |-> Str(a2), createdAt |-> JNum(300)]), messages, TRUE),
      CreateInput(Doc([id |-> Str(m1), entityId |-> Str(e2), roomId |-> Str(r2),
                       metadata |-> Doc([type |-> Str(messages)])]), facts, FALSE) }

GetQuery(entity_id, agent_id, room_id, world_id, table_name, count, offset) ==
    [entity_id |-> entity_id, agent_id |-> agent_id, room_id |-> room_id,
     world_id |-> world_id, table_name |-> table_name, count |-> count,
     offset |-> offset]

\* the first one is the query of the ordering scenario
RoomQueries ==
    { GetQuery(None, None, Some(r1), None, messages, Some(2), None),
      GetQuery(None, None, Some(r1), None, messages, Some(2), Some(1)),
      GetQuery(None, None, None, None, messages, None, None),
      GetQuery(Some(e1), None, None, None, messages, None, Some(1)),
      GetQuery(None, Some(a2), Some(r2), None, messages, Some(1), None),
      GetQuery(Some(e1), Some(<<"a", "1">>), None, Some(w1), messages, None, None),
      GetQuery(None, None, Some(r2), None, facts, Some(0), Some(3)),
      GetQuery(None, None, Some(r2), None, facts, None, None) }

NextRoom ==
    \/ CreateDatabaseAdapter(Agents)
    \/ CreateRoom(RoomDocs)
    \/ StorageSet({COLLECTIONS_PARTICIPANTS}, ParticipantIds, ParticipantDocs)
    \/ CreateMemory(RoomInputs)
    \/ DeleteRoom(RoomIds)
    \/ GetMemories(RoomQueries)

SpecRoom == Init /\ [][NextRoom]_vars

\* the documents of a collection, as a set
Documents(collection) ==
    {DATA[k] : k \in {key \in DOMAIN DATA : starts_with(key, collection \o <<":">>)}}

HasRoom(doc, r) == get_field(doc, "roomId") = Some(JStr(r))

\* C4 (cascade delete): once delete_room(r) has returned, there is no room
\* document r, no memory document and no participant document whose roomId is
\* r, and get_memories(roomId = r) is empty for every table - also when no room
\* document r existed before the call.
C4_CascadeDelete ==
    last.op = "delete_room" =>
        /\ last.ret = Ok(Unit)
        /\ IcpDatabaseAdapter_get_room(DATA, last.id) = None
        /\ \A doc \in Documents(COLLECTIONS_MEMORIES) : ~HasRoom(doc, last.id)
        /\ \A doc \in Documents(COLLECTIONS_PARTICIPANTS) : ~HasRoom(doc, last.id)
        /\ \A t \in {messages, facts} :
               IcpDatabaseAdapter_get_memories(DATA,
                   GetQuery(None, None, Some(last.id), None, t, None, None)) = <<>>

\* delete_room of a room that has no room document removed memories and
\* participants of that room and left a memory of the other room
C4_Witness ==
    /\ last.op = "delete_room"
    /\ ~last.found[1]
    /\ last.found[2] > 0
    /\ last.found[3] > 0
    /\ Documents(COLLECTIONS_MEMORIES) # {}

\* the filters of a get_memories query as the documents they ask for
MatchesFilters(m, q) ==
    /\ q.entity_id # None => get_field(m, "entityId") = Some(JStr(q.entity_id[2]))
    /\ q.agent_id # None => get_field(m, "agentId") = Some(JStr(q.agent_id[2]))
    /\ q.room_id # None => get_field(m, "roomId") = Some(JStr(q.room_id[2]))
    /\ q.world_id # None => get_field(m, "worldId") = Some(JStr(q.world_id[2]))
    /\ get_field(m, "metadata") # None
    /\ get_field(get_field(m, "metadata")[2], "type") = Some(JStr(q.table_name))

CreatedAt(m) == get_field(m, "createdAt")[2][2]

\* the sequences that list every element of S once
Orderings(S) ==
    {s \in [1..Cardinality(S) -> S] : \A i, j \in DOMAIN s : i # j => s[i] # s[j]}

Descending(L) == \A i \in 1..(Len(L) - 1) : CreatedAt(L[i]) >= CreatedAt(L[i + 1])

\* C10 (get_memories): the result is the memory documents that match every
\* supplied filter and the table, in descending createdAt order, without the
\* first `offset` of them and then cut to at most `count`.
C10_GetMemories ==
    last.op = "get_memories" =>
        LET q == last.query
            off == unwrap_or(q.offset, 0)
            S == {m \in Documents(COLLECTIONS_MEMORIES) : MatchesFilters(m, q)}
        IN  \E L \in Orderings(S) :
                /\ Descending(L)
                /\ last.ret = Ok(IF q.count = None THEN Skip(L, off)
                                 ELSE Take(Skip(L, off), q.count[2]))

\* the ordering scenario: the room holds createdAt 100, 300 and 200, and
\* get_memories(roomId, count = 2) returned the 300 one then the 200 one
C10_Witness ==
    /\ last.op = "get_memories"
    /\ last.query = GetQuery(None, None, Some(r1), None, messages, Some(2), None)
    /\ {CreatedAt(m) : m \in {d \in Documents(COLLECTIONS_MEMORIES) : HasRoom(d, r1)}}
           = {100, 200, 300}
    /\ Len(last.ret[2]) = 2
    /\ CreatedAt(last.ret[2][1]) = 300
    /\ CreatedAt(last.ret[2][2]) = 200

(***************************************************************************)
(* SpecSearch: memories with embeddings, and search_memories over them.    *)
(* delete_room leaves the vector records of the memories it deletes, so    *)
(* the Vector Index can name ids that have no document.                    *)
(***************************************************************************)
SearchDims == {2}

SearchInputs ==
    { CreateInput(Doc([id |-> Str(m1), entityId |-> Str(e1), roomId |-> Str(r1),
                       embedding |-> Embedding(<<1, 0>>)]), messages, FALSE),
      CreateInput(Doc([id |-> Str(m2), entityId |-> Str(e2), roomId |-> Str(r1),
                       worldId |-> Str(w1), embedding |-> Embedding(<<1, 1>>)]),
                  messages, TRUE),
      CreateInput(Doc([id |-> Str(m3), entityId |-> Str(e1), roomId |-> Str(r2),
                       embedding |-> Embedding(<<1, 0>>)]), facts, FALSE),
      CreateInput(Doc([id |-> Str(m3), entityId |-> Str(e1), roomId |-> Str(r2),
                       unique |-> JBool(TRUE), embedding |-> Embedding(<<2, 1>>)]),
                  messages, FALSE),
      CreateInput(Doc([id |-> Str(m1), roomId |-> Str(r2),
                       embedding |-> Embedding(<<0, 1>>)]), messages, FALSE) }

SearchQuery(table_name, embedding, match_threshold, count, room_id, world_id, entity_id, unique) ==
    [table_name |-> table_name, embedding |-> embedding,
     match_threshold |-> match_threshold, count |-> count, room_id |-> room_id,
     world_id |-> world_id, entity_id |-> entity_id, unique |-> unique]

SearchQueries ==
    { SearchQuery(messages, <<1, 0>>, None, None, None, None, None, None),
      SearchQuery(messages, <<1, 0>>, Some(-Scale), Some(1), None, None, None, None),
      SearchQuery(messages, <<1, 1>>, Some(DefaultThreshold), Some(2), Some(r1), None, None, None),
      SearchQuery(messages, <<1, 0>>, None, None, None, None, None, Some(TRUE)),
      SearchQuery(messages, <<1, 0>>, Some(-Scale), None, None, None, None, Some(FALSE)),
      SearchQuery(facts, <<1, 0>>, None, Some(0), None, None, Some(e1), None),
      SearchQuery(facts, <<1, 1>>, None, Some(MaxK), None, None, Some(e1), None),
      SearchQuery(facts, <<1, 1>>, Some(-Scale), Some(1), None, None, None, None),
      SearchQuery(messages, <<1, 1>>, Some(Scale), None, None, Some(w1), Some(e2), None),
      SearchQuery(messages, <<1, 0, 0>>, None, None, None, None, None, None) }

SearchIds == {m1, m3}

NextSearch ==
    \/ CreateDatabaseAdapter(Agents)
    \/ EnsureEmbeddingDimension(SearchDims)
    \/ CreateMemory(SearchInputs)
    \/ DeleteMemory(SearchIds)
    \/ DeleteRoom(RoomIds)
    \/ SearchMemories(SearchQueries)

SpecSearch == Init /\ [][NextSearch]_vars

Similarity(doc) == get_field(doc, "similarity")[2][2]

\* what search_memories(q) promises of one returned document, the unique flag
\* aside: it is a stored memory document with the similarity field added, its
\* vector record scores at least the threshold against q.embedding, the
\* similarity field is that score, and it matches the table and the filters
SearchResultOk(doc, q) ==
    LET id == as_str(get_field(doc, "id"))
        stored == IF id = None THEN None
                  ELSE IcpMemoryStorage_get(DATA, COLLECTIONS_MEMORIES, id[2])
        threshold == unwrap_or(q.match_threshold, Scale \div 2)
    IN  /\ stored # None
        /\ DOMAIN doc[2] = DOMAIN stored[2][2] \cup {"similarity"}
        /\ \A f \in DOMAIN stored[2][2] \ {"similarity"} : doc[2][f] = stored[2][2][f]
        /\ id[2] \in DOMAIN VECTORS
        /\ cosine_similarity(q.embedding, VECTORS[id[2]]) >= threshold
        /\ get_field(doc, "similarity")
               = Some(JNum(cosine_similarity(q.embedding, VECTORS[id[2]])))
        /\ get_field(doc, "metadata") # None
        /\ get_field(get_field(doc, "metadata")[2], "type") = Some(JStr(q.table_name))
        /\ q.room_id # None => get_field(doc, "roomId") = Some(JStr(q.room_id[2]))
        /\ q.world_id # None => get_field(doc, "worldId") = Some(JStr(q.world_id[2]))
        /\ q.entity_id # None => get_field(doc, "entityId") = Some(JStr(q.entity_id[2]))

\* at most count (10 when omitted) documents, in non-increasing similarity order
SearchListOk(docs, q) ==
    /\ Len(docs) <= unwrap_or(q.count, 10)
    /\ \A i \in 1..Len(docs) : SearchResultOk(docs[i], q)
    /\ \A i \in 1..(Len(docs) - 1) : Similarity(docs[i]) >= Similarity(docs[i + 1])

\* C9 as stated (search_memories): at most count documents (10 when omitted),
\* each an existing memory document whose vector similarity is at least the
\* threshold (0.5 when omitted), that carries its score as `similarity` and
\* matches the table and every supplied roomId, worldId, entityId and unique
\* filter, in non-increasing similarity order.  Here a supplied unique filter,
\* true or false, is matched by a document whose unique flag equals it.
C9_SearchMemoriesUniqueEquals ==
    (last.op = "search_memories" /\ last.ret[1] = "Ok") =>
        /\ SearchListOk(last.ret[2], last.query)
        /\ \A i \in 1..Len(last.ret[2]) :
               last.query.unique # None =>
                   get_field(last.ret[2][i], "unique") = Some(JBool(last.query.unique[2]))

\* C9 as amended (search_memories): the same, but the unique filter only
\* applies when unique = true is asked for: then every returned document has
\* unique = true; unique = false, like an omitted unique, filters nothing.
C9_SearchMemories ==
    (last.op = "search_memories" /\ last.ret[1] = "Ok") =>
        /\ SearchListOk(last.ret[2], last.query)
        /\ \A i \in 1..Len(last.ret[2]) :
               last.query.unique = Some(TRUE) =>
                   get_field(last.ret[2][i], "unique") = Some(JBool(TRUE))

\* a search for unique memories returned m3 before m2 and left out m1, which
\* scores highest but is not unique
C9_Witness ==
    /\ last.op = "search_memories"
    /\ last.ret[1] = "Ok"
    /\ last.query.unique = Some(TRUE)
    /\ Len(last.ret[2]) = 2
    /\ get_field(last.ret[2][1], "id") = Some(JStr(m3))
    /\ get_field(last.ret[2][2], "id") = Some(JStr(m2))
    /\ Similarity(last.ret[2][1]) > Similarity(last.ret[2][2])
    /\ IcpMemoryStorage_get(DATA, COLLECTIONS_MEMORIES, m1) # None
    /\ get_field(IcpMemoryStorage_get(DATA, COLLECTIONS_MEMORIES, m1)[2], "unique")
           = Some(JBool(FALSE))
    /\ m1 \in DOMAIN VECTORS
    /\ cosine_similarity(last.query.embedding, VECTORS[m1]) = Scale

\* C22 (vector records and memories stay synchronized): every id that has a
\* vector record is the id of a document of the memories collection.
\* delete_room removes the memories of the room with delete_where and never
\* calls IcpVectorStorage::remove, so their vector records stay behind.
C22_NoOrphanVector ==
    \A id \in DOMAIN VECTORS :
        IcpMemoryStorage_get(DATA, COLLECTIONS_MEMORIES, id) # None

\* the score of the vector record id against the query
Score(q, id) == cosine_similarity(q.embedding, VECTORS[id])

\* the ids of the memories that have a vector record scoring at least the
\* threshold and pass the table and every supplied filter of q (the unique
\* filter when unique = true is asked for)
SearchMatches(q) ==
    {id \in DOMAIN VECTORS :
        LET stored == IcpMemoryStorage_get(DATA, COLLECTIONS_MEMORIES, id)
        IN  /\ Score(q, id) >= unwrap_or(q.match_threshold, Scale \div 2)
            /\ stored # None
            /\ get_field(stored[2], "metadata") # None
            /\ get_field(get_field(stored[2], "metadata")[2], "type")
                   = Some(JStr(q.table_name))
            /\ q.room_id # None => get_field(stored[2], "roomId") = Some(JStr(q.room_id[2]))
            /\ q.world_id # None => get_field(stored[2], "worldId") = Some(JStr(q.world_id[2]))
            /\ q.entity_id # None =>
                   get_field(stored[2], "entityId") = Some(JStr(q.entity_id[2]))
            /\ q.unique = Some(TRUE) => get_field(stored[2], "unique") = Some(JBool(TRUE))}

ReturnedIds(docs) == {as_str(get_field(docs[i], "id"))[2] : i \in 1..Len(docs)}

\* count documents were returned, each scoring at least as high as m
CountAtLeast(docs, q, m) ==
    /\ Len(docs) = unwrap_or(q.count, 10)
    /\ \A i \in 1..Len(docs) : Similarity(docs[i]) >= Score(q, m)

\* C27 as stated (search_memories is complete up to count): it returns
\* min(count, M) documents, M the number of matching memories, and a matching
\* memory is left out only when count matches of equal or higher similarity
\* are returned.
C27_SearchComplete ==
    (last.op = "search_memories" /\ last.ret[1] = "Ok") =>
        LET q == last.query
            docs == last.ret[2]
        IN  /\ Len(docs) = Min(unwrap_or(q.count, 10), Cardinality(SearchMatches(q)))
            /\ ReturnedIds(docs) \subseteq SearchMatches(q)
            /\ \A m \in SearchMatches(q) \ ReturnedIds(docs) : CountAtLeast(docs, q, m)

\* C27 as amended: it returns at most min(count, M) documents, all of them
\* matching memories, and a matching memory is left out only when count
\* matches of equal or higher similarity are returned, or when 2 * count other
\* vector records, matching or not, score at least as high as it does.
C27_SearchCompleteAmongCandidates ==
    (last.op = "search_memories" /\ last.ret[1] = "Ok") =>
        LET q == last.query
            docs == last.ret[2]
        IN  /\ Len(docs) <= Min(unwrap_or(q.count, 10), Cardinality(SearchMatches(q)))
            /\ ReturnedIds(docs) \subseteq SearchMatches(q)
            /\ \A m \in SearchMatches(q) \ ReturnedIds(docs) :
                   \/ CountAtLeast(docs, q, m)
                   \/ Cardinality({id \in DOMAIN VECTORS \ {m} : Score(q, id) >= Score(q, m)})
                          >= 2 * unwrap_or(q.count, 10)

\* a search of the facts table with count 1 came back empty although m3 is a
\* fact above the threshold: the two candidates were m2 and m1, both messages
C27_Witness ==
    /\ last.op = "search_memories"
    /\ last.ret = Ok(<<>>)
    /\ last.query.table_name = facts
    /\ last.query.count = Some(1)
    /\ SearchMatches(last.query) = {m3}
    /\ {m1, m2} \subseteq DOMAIN VECTORS
    /\ Score(last.query, m2) > Score(last.query, m3)
    /\ Score(last.query, m1) = Score(last.query, m3)

(***************************************************************************)
(* SpecCreate: create_memory on documents that carry, lack or mistype the  *)
(* fields it fills in, at two clock values.                                *)
(***************************************************************************)
hi == <<"h", "i">>

\* the fourth has an embedding of the wrong length for the default dimension
MemoryInputs ==
    { CreateInput(Doc([id |-> Str(m1), agentId |-> Str(a2), createdAt |-> JNum(100),
                       unique |-> JBool(TRUE), text |-> Str(hi),
                       metadata |-> Doc([type |-> Str(facts), name |-> Str(hi)])]),
                  messages, FALSE),
      CreateInput(Doc([roomId |-> Str(r1), content |-> Doc([text |-> Str(hi)])]),
                  facts, TRUE),
      CreateInput(Doc([id |-> JNum(1), createdAt |-> JNull, unique |-> JBool(FALSE),
                       metadata |-> Doc(EmptyMap)]), messages, FALSE),
      CreateInput(Doc([id |-> Str(m2), embedding |-> Embedding(<<1, 0>>)]),
                  messages, FALSE),
      CreateInput(Doc([id |-> Str(m1), unique |-> Str(hi), entityId |-> Str(e1)]),
                  facts, FALSE) }

NextCreate ==
    \/ CreateDatabaseAdapter(Agents)
    \/ Tick
    \/ CreateMemory(MemoryInputs)
    \/ DeleteMemory(LifeIds)

SpecCreate == Init /\ [][NextCreate]_vars

\* the document the claim says create_memory(d, T, u) stores under id
ExpectedMemory(d, T, u, id, nowv, agent_id) ==
    LET given == d[2]
        md == IF "metadata" \in DOMAIN given THEN given["metadata"][2] ELSE EmptyMap
    IN  JObj([f \in DOMAIN given \cup {"id", "createdAt", "agentId", "unique", "metadata"} |->
            CASE f = "id"        -> JStr(id)
              [] f = "createdAt" -> IF f \in DOMAIN given THEN given[f] ELSE JNum(nowv)
              [] f = "agentId"   -> IF f \in DOMAIN given THEN given[f] ELSE JStr(agent_id)
              [] f = "unique"    -> JBool(u \/ (f \in DOMAIN given /\ given[f] = JBool(TRUE)))
              [] f = "metadata"  -> JObj([g \in DOMAIN md \cup {"type"} |->
                                            IF g = "type" THEN JStr(T) ELSE md[g]])
              [] OTHER           -> given[f]])

HasStringId(d) == "id" \in DOMAIN d[2] /\ d[2]["id"][1] = "str"

\* C11 (create_memory): when create_memory(d, T, u) returns id, id is d's own
\* id if d had a string id and the newly generated one otherwise, and
\* get_memory_by_id(id) is d with id, createdAt (d's, else the current time),
\* agentId (d's, else the handle's agent id), unique = (u or d.unique = true)
\* and metadata.type = T over d's other metadata keys; every other field is d's.
C11_CreateMemoryFields ==
    (last.op = "create_memory" /\ last.ret[1] = "Ok") =>
        LET d == last.memory
            id == last.ret[2]
        IN  /\ id = IF HasStringId(d) THEN d[2]["id"][2] ELSE generate_uuid(now, COUNTER)
            /\ IcpDatabaseAdapter_get_memory_by_id(DATA, id)
                   = Some(ExpectedMemory(d, last.table_name, last.unique, id,
                                         now_millis(now), handle[2].agent_id))

\* a document with no id, createdAt, agentId, unique or metadata was created at
\* the later clock value and stored under the generated id
C11_Witness ==
    /\ last.op = "create_memory"
    /\ last.ret[1] = "Ok"
    /\ ~HasStringId(last.memory)
    /\ DOMAIN last.memory[2] = {"roomId", "content"}
    /\ now = Times[2]
    /\ IcpDatabaseAdapter_get_memory_by_id(DATA, generate_uuid(now, COUNTER)) # None

(***************************************************************************)
(* SpecCache: the cache operations of the adapter, with the clock moving   *)
(* past some of the expiresAt values the cached values carry.              *)
(***************************************************************************)
CacheKeys == {<<"a">>, <<"b">>}

\* 0 and 100 are before every clock value, 200 is between the two
CacheValues ==
    { JNull, JBool(TRUE), JNum(7), Str(hi), JArr(<<JNum(1), JNull>>),
      Doc([value |-> JNum(1), expiresAt |-> JNum(0)]),
      Doc([expiresAt |-> JNum(200)]),
      Doc([name |-> Str(hi), expiresAt |-> JNum(100)]) }

NextCache ==
    \/ CreateDatabaseAdapter(Agents)
    \/ Tick
    \/ SetCache(CacheKeys, CacheValues)
    \/ GetCache(CacheKeys)
    \/ DeleteCache(CacheKeys)

SpecCache == Init /\ [][NextCache]_vars

\* what get_cache(k) would return at clock value t
Cached(data, k, t) == IcpDatabaseAdapter_get_cache(data, k, now_millis(t)).ret

\* the value of an entry written by set_cache carries an expiresAt before t
CarriesPastExpiry(doc, t) ==
    /\ get_field(doc, "value") # None
    /\ as_i64(get_field(get_field(doc, "value")[2], "expiresAt")) # None
    /\ as_i64(get_field(get_field(doc, "value")[2], "expiresAt"))[2] < now_millis(t)

\* C12 (cache TTL): a get_cache(k) that finds an entry written by set_cache(k, v)
\* whose v carries an expiresAt in the past returns absent and removes the
\* entry, so that every later get_cache(k) is absent too.
C12_ExpiredEntryAbsent ==
    (last.op = "get_cache" /\ last.found # None /\ CarriesPastExpiry(last.found[2], now)) =>
        /\ last.ret = Ok(None)
        /\ IcpMemoryStorage_get(DATA, COLLECTIONS_CACHE, last.key) = None

\* C13 (cache envelope): set_cache(k, v) returns true and from then on
\* get_cache(k) returns Some(v) exactly, whatever the shape of v and the clock;
\* what get_cache(k) returns changes only by a set_cache(k, _) or a
\* delete_cache(k); delete_cache(k) returns true exactly when an entry was
\* there and leaves get_cache(k) absent.
C13_CacheRoundTrip ==
    /\ [](last.op = "set_cache" =>
            /\ last.ret = Ok(TRUE)
            /\ \A i \in 1..Len(Times) : Cached(DATA, last.key, Times[i]) = Ok(Some(last.value)))
    /\ [][last'.op = "get_cache" =>
            /\ last'.ret = Cached(DATA, last'.key, now)
            /\ Cached(DATA', last'.key, now') = last'.ret]_vars
    /\ [][\A k \in CacheKeys : \A i \in 1..Len(Times) :
            Cached(DATA', k, Times[i]) # Cached(DATA, k, Times[i])
                => last'.op \in {"set_cache", "delete_cache"} /\ last'.key = k]_vars
    /\ [][last'.op = "delete_cache" =>
            /\ last'.ret = Ok(IcpMemoryStorage_get(DATA, COLLECTIONS_CACHE, last'.key) # None)
            /\ \A i \in 1..Len(Times) : Cached(DATA', last'.key, Times[i]) = Ok(None)]_vars

\* get_cache returned an object value that has `value` and `expiresAt` fields
\* of its own, after the other key was written and the clock moved
C13_Witness ==
    /\ last.op = "get_cache"
    /\ last.ret = Ok(Some(Doc([value |-> JNum(1), expiresAt |-> JNum(0)])))
    /\ now = Times[2]
    /\ IcpMemoryStorage_get(DATA, COLLECTIONS_CACHE, <<"b">>) # None
    /\ IcpMemoryStorage_get(DATA, COLLECTIONS_CACHE, <<"a">>) # None

(***************************************************************************)
(* SpecExpiry: cache documents with a top-level expiresAt, which only a    *)
(* direct IcpMemoryStorage::set on the cache collection can write, read    *)
(* by get_cache before, at and after their expiry.                         *)
(***************************************************************************)
\* expiresAt 100 is before both clock values, 150 is the first one, 200 lies
\* between them and 300 is after both
ExpiryDocs ==
    { Doc([value |-> JNum(1), expiresAt |-> JNum(100)]),
      Doc([value |-> Str(hi), expiresAt |-> JNum(150)]),
      Doc([value |-> JNum(2), expiresAt |-> JNum(200)]),
      Doc([value |-> JNull, expiresAt |-> JNum(300)]),
      Doc([value |-> JNum(3)]) }

NextExpiry ==
    \/ CreateDatabaseAdapter(Agents)
    \/ Tick
    \/ StorageSet({COLLECTIONS_CACHE}, CacheKeys, ExpiryDocs)
    \/ SetCache(CacheKeys, {JNum(7)})
    \/ GetCache(CacheKeys)
    \/ DeleteCache(CacheKeys)
    \/ StorageCount({COLLECTIONS_CACHE}, {None})

SpecExpiry == Init /\ [][NextExpiry]_vars

Entry(data, k) == IcpMemoryStorage_get(data, COLLECTIONS_CACHE, k)

\* the entry has a top-level expiresAt before the clock value t
Expired(entry, t) ==
    /\ entry # None
    /\ as_i64(get_field(entry[2], "expiresAt")) # None
    /\ now_millis(t) > as_i64(get_field(entry[2], "expiresAt"))[2]

\* C28 (lazy expiration): a get_cache(k) that finds an entry whose top-level
\* expiresAt is before the clock deletes the entry and returns absent; one that
\* finds an entry with expiresAt at or after the clock returns the entry's value
\* and leaves the entry; an absent key reads as absent and only a set makes it
\* present again; an entry goes away only by a get_cache of its key past its
\* expiry or by a delete, never by the clock moving; and count counts every
\* entry, expired or not.
C28_LazyExpiration ==
    /\ [](last.op = "get_cache" =>
            IF Expired(last.found, now)
            THEN last.ret = Ok(None) /\ Entry(DATA, last.key) = None
            ELSE IF last.found = None
            THEN last.ret = Ok(None) /\ Entry(DATA, last.key) = None
            ELSE /\ last.ret = Ok(get_field(last.found[2], "value"))
                 /\ Entry(DATA, last.key) = last.found)
    /\ [][\A k \in CacheKeys :
            (Entry(DATA, k) = None /\ Entry(DATA', k) # None)
                => last'.op \in {"set", "set_cache"}]_vars
    /\ [][\A k \in CacheKeys :
            (Entry(DATA, k) # None /\ Entry(DATA', k) = None)
                => \/ last'.op = "delete_cache" /\ last'.key = k
                   \/ last'.op = "get_cache" /\ last'.key = k /\ Expired(Entry(DATA, k), now)]_vars
    /\ [][last'.op = "tick" => DATA' = DATA]_vars
    /\ [](last.op = "count" =>
            last.ret = Ok(Cardinality({k \in CacheKeys : Entry(DATA, k) # None})))

\* a get_cache at clock value 250 found the entry with expiresAt 200, removed
\* it and returned absent, while the other key's entry, which expired at 150,
\* has not been read and is still there
C28_Witness ==
    /\ last.op = "get_cache"
    /\ last.key = <<"a">>
    /\ last.found = Some(Doc([value |-> JNum(2), expiresAt |-> JNum(200)]))
    /\ now = Times[2]
    /\ last.ret = Ok(None)
    /\ Entry(DATA, <<"a">>) = None
    /\ Entry(DATA, <<"b">>) = Some(Doc([value |-> Str(hi), expiresAt |-> JNum(150)]))

(***************************************************************************)
(* SpecTable: memories created under two table names, some re-created      *)
(* under the other one, read back by get_memories and search_memories.     *)
(***************************************************************************)
\* the third document arrives with a metadata.type of its own, which
\* create_memory overwrites
TableInputs ==
    { CreateInput(Doc([id |-> Str(m1), roomId |-> Str(r1),
                       embedding |-> Embedding(<<1, 0>>)]), messages, FALSE),
      CreateInput(Doc([id |-> Str(m1), roomId |-> Str(r1),
                       embedding |-> Embedding(<<1, 0>>)]), facts, FALSE),
      CreateInput(Doc([id |-> Str(m2), roomId |-> Str(r1),
                       metadata |-> Doc([type |-> Str(messages)]),
                       embedding |-> Embedding(<<1, 1>>)]), facts, FALSE),
      CreateInput(Doc([id |-> Str(m3), roomId |-> Str(r2),
                       metadata |-> Doc([name |-> Str(hi)])]), messages, TRUE) }

TableQueries ==
    { GetQuery(None, None, None, None, messages, None, None),
      GetQuery(None, None, None, None, facts, None, None),
      GetQuery(None, None, Some(r1), None, facts, Some(1), None),
      GetQuery(None, None, None, None, <<"a">>, None, None) }

TableSearches ==
    { SearchQuery(messages, <<1, 0>>, Some(-Scale), None, None, None, None, None),
      SearchQuery(facts, <<1, 0>>, Some(-Scale), None, None, None, None, None),
      SearchQuery(facts, <<1, 1>>, None, Some(1), Some(r1), None, None, None) }

NextTable ==
    \/ CreateDatabaseAdapter(Agents)
    \/ EnsureEmbeddingDimension(SearchDims)
    \/ CreateMemory(TableInputs)
    \/ DeleteMemory(SearchIds)
    \/ DeleteRoom(RoomIds)
    \/ GetMemories(TableQueries)
    \/ SearchMemories(TableSearches)

SpecTable == Init /\ [][NextTable]_vars

TypeOf(doc) ==
    IF get_field(doc, "metadata") = None THEN None
    ELSE as_str(get_field(get_field(doc, "metadata")[2], "type"))

\* C29 (table partitioning): every document that get_memories or
\* search_memories returns for table name T has metadata.type = T, and is a
\* document of the memories collection whose stored metadata.type is T.
C29_TablePartition ==
    (last.op \in {"get_memories", "search_memories"} /\ last.ret[1] = "Ok") =>
        \A i \in 1..Len(last.ret[2]) :
            LET doc == last.ret[2][i]
                id == as_str(get_field(doc, "id"))
            IN  /\ TypeOf(doc) = Some(last.query.table_name)
                /\ id # None
                /\ IcpDatabaseAdapter_get_memory_by_id(DATA, id[2]) # None
                /\ TypeOf(IcpDatabaseAdapter_get_memory_by_id(DATA, id[2])[2])
                       = Some(last.query.table_name)

\* a query for the facts table returned exactly m2, whose document came with
\* metadata.type "msgs" of its own, while m1 and m3 are stored as messages
C29_Witness ==
    /\ last.op \in {"get_memories", "search_memories"}
    /\ last.query.table_name = facts
    /\ last.ret[1] = "Ok"
    /\ Len(last.ret[2]) = 1
    /\ get_field(last.ret[2][1], "id") = Some(JStr(m2))
    /\ IcpDatabaseAdapter_get_memory_by_id(DATA, m1) # None
    /\ TypeOf(IcpDatabaseAdapter_get_memory_by_id(DATA, m1)[2]) = Some(messages)
    /\ IcpDatabaseAdapter_get_memory_by_id(DATA, m3) # None
    /\ m1 \in DOMAIN VECTORS

(***************************************************************************)
(* SpecAgent: create_agent, update_agent and delete_agent.                 *)
(***************************************************************************)
a1 == <<"a", "1">>

AgentIds == {a1, a2}

\* the last three have no string id
AgentDocs ==
    { Doc([id |-> Str(a1), name |-> Str(hi),
           metadata |-> Doc([name |-> Str(hi), text |-> Str(hi)])]),
      Doc([id |-> Str(a2)]),
      Doc([name |-> Str(hi)]),
      Doc([id |-> JNum(1), name |-> Str(hi)]),
      Str(hi) }

\* the last one is no object
AgentPatches ==
    { Doc([name |-> Str(<<"a">>)]),
      Doc([metadata |-> Doc([text |-> Str(<<"a">>)])]),
      Doc([worldId |-> Str(w1), name |-> JNull]),
      JNull }

NextAgent ==
    \/ CreateDatabaseAdapter(Agents)
    \/ CreateAgent(AgentDocs)
    \/ UpdateAgent(AgentIds, AgentPatches)
    \/ DeleteAgent(AgentIds)

SpecAgent == Init /\ [][NextAgent]_vars

\* the top-level keys a patch names
PatchKeys(patch) == IF patch[1] = "obj" THEN DOMAIN patch[2] ELSE {}

\* C14 (shallow merge): update_agent(id, patch) on an existing agent returns
\* true and stores a document with exactly the old top-level keys and the
\* patch's, where each key of the patch has the patch's value (a nested object
\* as a whole) and every other key its previous value.
C14_ShallowMerge ==
    [][(last'.op = "update_agent"
            /\ IcpDatabaseAdapter_get_agent(DATA, last'.agent_id) # None) =>
        LET old == IcpDatabaseAdapter_get_agent(DATA, last'.agent_id)[2][2]
            new == IcpDatabaseAdapter_get_agent(DATA', last'.agent_id)
            keys == PatchKeys(last'.agent)
        IN  /\ last'.ret = Ok(TRUE)
            /\ new # None
            /\ new[2][1] = "obj"
            /\ DOMAIN new[2][2] = DOMAIN old \cup keys
            /\ \A k \in keys : new[2][2][k] = last'.agent[2][k]
            /\ \A k \in DOMAIN old \ keys : new[2][2][k] = old[k]]_vars

\* the patch {metadata: {text: "a"}} replaced the nested object as a whole and
\* left id and name as they were
C14_Witness ==
    /\ last.op = "update_agent"
    /\ last.ret = Ok(TRUE)
    /\ last.agent = Doc([metadata |-> Doc([text |-> Str(<<"a">>)])])
    /\ IcpDatabaseAdapter_get_agent(DATA, a1)
           = Some(Doc([id |-> Str(a1), name |-> Str(hi),
                       metadata |-> Doc([text |-> Str(<<"a">>)])]))

\* C15 (create_agent): a document without a string id gives Ok(false) and
\* changes no document and no vector record; a document with id i gives
\* Ok(true), and get_agent(i) then returns the document.
C15_CreateAgent ==
    [][last'.op = "create_agent" =>
        LET id == as_str(get_field(last'.agent, "id"))
        IN  IF id = None
            THEN last'.ret = Ok(FALSE) /\ DATA' = DATA /\ VECTORS' = VECTORS
            ELSE /\ last'.ret = Ok(TRUE)
                 /\ IcpDatabaseAdapter_get_agent(DATA', id[2]) = Some(last'.agent)]_vars

\* create_agent of a document whose id is a number returned false while another
\* agent was stored
C15_Witness ==
    /\ last.op = "create_agent"
    /\ last.ret = Ok(FALSE)
    /\ get_field(last.agent, "id") = Some(JNum(1))
    /\ IcpDatabaseAdapter_get_agent(DATA, a2) # None

(***************************************************************************)
(* SpecKeys: the Collection Store under ids that contain the separator,    *)
(* with the scans get_all, get_where and count.                            *)
(***************************************************************************)
KeyCollections == {COLLECTIONS_ROOMS, COLLECTIONS_CACHE}

KeyIds == {<<"a">>, <<"a", ":", "b">>, <<":", "a">>}

KeyDocs == {JNum(3), Doc([name |-> Str(<<"x">>)])}

KeyPredicates == {<<"any">>, <<"is_object">>, <<"has_name">>}

KeyCountPredicates == {None, Some(<<"none">>), Some(<<"has_name">>)}

NextKeys ==
    \/ StorageSet(KeyCollections, KeyIds, KeyDocs)
    \/ StorageDelete(KeyCollections, KeyIds)
    \/ StorageGetAll(KeyCollections)
    \/ StorageGetWhere(KeyCollections, KeyPredicates)
    \/ StorageCount(KeyCollections, KeyCountPredicates)

SpecKeys == Init /\ [][NextKeys]_vars

\* how many ids of collection c hold document doc
Holders(data, c, doc) ==
    Cardinality({i \in KeyIds : IcpMemoryStorage_get(data, c, i) = Some(doc)})

\* how often doc occurs in the list
Occurrences(list, doc) == Cardinality({n \in 1..Len(list) : list[n] = doc})

\* get_all(c) lists one document for each id stored in c, and nothing else
OnePerId(data, c) ==
    LET all == IcpMemoryStorage_get_all(data, c)
    IN  /\ Len(all) = Cardinality({i \in KeyIds : IcpMemoryStorage_get(data, c, i) # None})
        /\ \A doc \in KeyDocs : Occurrences(all, doc) = Holders(data, c, doc)

\* C16 (key uniqueness, upsert): set(c, i, d) makes get(c, i) the document d,
\* leaves get(c2, i2) of every other pair and get_all of every other
\* collection as they were, and get_all(c) lists exactly one document per
\* stored id of c, the last one written - also for ids that contain ':'.
C16_KeyUniqueness ==
    /\ [][last'.op = "set" =>
            /\ IcpMemoryStorage_get(DATA', last'.collection, last'.id) = Some(last'.doc)
            /\ \A c \in KeyCollections, i \in KeyIds :
                   <<c, i>> # <<last'.collection, last'.id>> =>
                       IcpMemoryStorage_get(DATA', c, i) = IcpMemoryStorage_get(DATA, c, i)
            /\ \A c \in KeyCollections \ {last'.collection} :
                   IcpMemoryStorage_get_all(DATA', c) = IcpMemoryStorage_get_all(DATA, c)]_vars
    /\ [](\A c \in KeyCollections : OnePerId(DATA, c))

\* the id "a:b" was overwritten while "a" and ":a" of the same collection and
\* "a:b" of the other collection hold the other document
C16_Witness ==
    /\ last.op = "set"
    /\ last.id = <<"a", ":", "b">>
    /\ last.collection = COLLECTIONS_ROOMS
    /\ last.doc = JNum(3)
    /\ IcpMemoryStorage_get_all(DATA, COLLECTIONS_ROOMS)
           = <<Doc([name |-> Str(<<"x">>)]), Doc([name |-> Str(<<"x">>)]), JNum(3)>>
    /\ IcpMemoryStorage_get(DATA, COLLECTIONS_CACHE, <<"a", ":", "b">>)
           = Some(Doc([name |-> Str(<<"x">>)]))

\* C17 (delete): delete(c, i) returns true exactly when a document was stored
\* under (c, i) when it was called, and get(c, i) is absent afterwards; an
\* absent (c, i) becomes present only by a set(c, i, _), so until then every
\* further delete(c, i) returns false.
C17_DeleteOnce ==
    /\ [][last'.op = "delete" =>
            /\ last'.ret = Ok(IcpMemoryStorage_get(DATA, last'.collection, last'.id) # None)
            /\ IcpMemoryStorage_get(DATA', last'.collection, last'.id) = None]_vars
    /\ [][\A c \in KeyCollections, i \in KeyIds :
            (IcpMemoryStorage_get(DATA, c, i) = None
                /\ IcpMemoryStorage_get(DATA', c, i) # None)
              => (last'.op = "set" /\ last'.collection = c /\ last'.id = i)]_vars

\* a delete of a key that is absent returned false while its collection holds
\* other documents
C17_Witness ==
    /\ last.op = "delete"
    /\ last.ret = Ok(FALSE)
    /\ IcpMemoryStorage_get_all(DATA, last.collection) # <<>>

\* C18 (predicate scan): get_where(c, p) is the list get_all(c) with the
\* documents that do not satisfy p left out; count(c, Some(p)) is the length of
\* get_where(c, p) and count(c, None) the length of get_all(c).
C18_ScanCorrect ==
    /\ last.op = "get_where" =>
           last.ret = Ok(SelectSeq(IcpMemoryStorage_get_all(DATA, last.collection),
                                   LAMBDA doc : call(last.predicate, doc)))
    /\ last.op = "count" =>
           last.ret = Ok(IF last.predicate = None
                         THEN Len(IcpMemoryStorage_get_all(DATA, last.collection))
                         ELSE Len(IcpMemoryStorage_get_where(DATA, last.collection,
                                                             last.predicate[2])))
    /\ last.op = "get_all" => last.ret = Ok(IcpMemoryStorage_get_all(DATA, last.collection))

\* get_where kept one of the three documents of a collection while the other
\* collection holds a document that satisfies the predicate too
C18_Witness ==
    /\ last.op = "get_where"
    /\ last.predicate = <<"has_name">>
    /\ Len(last.ret[2]) = 1
    /\ Len(IcpMemoryStorage_get_all(DATA, last.collection)) = 3
    /\ \E c \in KeyCollections \ {last.collection} :
           IcpMemoryStorage_count(DATA, c, Some(<<"has_name">>)) > 0

(***************************************************************************)
(* SpecReady: the ready flag of an adapter handle and of the wrapper, with *)
(* memory operations through both.                                         *)
(***************************************************************************)
ReadyInputs ==
    { CreateInput(Doc([id |-> Str(m1), roomId |-> Str(r1)]), messages, FALSE),
      CreateInput(Doc([id |-> Str(m2), embedding |-> Embedding(<<1, 0>>)]), facts, TRUE) }

NextReady ==
    \/ CreateDatabaseAdapter(Agents)
    \/ AdapterNew(Agents)
    \/ AdapterInit
    \/ AdapterClose
    \/ EnsureEmbeddingDimension(SearchDims)
    \/ CreateMemory(ReadyInputs)
    \/ DeleteMemory(LifeIds)
    \/ BridgeNew(Agents)
    \/ BridgeInit
    \/ BridgeClose
    \/ BridgeCreateMemory(ReadyInputs)
    \/ BridgeDeleteMemory(LifeIds)

SpecReady == Init /\ [][NextReady]_vars

\* C19 (lifecycle): is_ready() is false on a handle that new() returned, true
\* when init() has returned and false when close() has returned, again and
\* again; the flag of a handle changes in no other step (create_database_adapter
\* and new put another handle in its place).  The wrapper's flag follows its own
\* new, init and close in the same way and equals the wrapped adapter's flag in
\* every state.
C19_ReadyLifecycle ==
    /\ [](/\ last.op = "new" => ~IcpDatabaseAdapter_is_ready(handle[2])
          /\ last.op = "init" => IcpDatabaseAdapter_is_ready(handle[2])
          /\ last.op = "close" => ~IcpDatabaseAdapter_is_ready(handle[2])
          /\ last.op = "bridge_new" => ~IcpElizaAdapter_is_ready(bridge[2])
          /\ last.op = "bridge_init" => IcpElizaAdapter_is_ready(bridge[2])
          /\ last.op = "bridge_close" => ~IcpElizaAdapter_is_ready(bridge[2])
          /\ bridge # None =>
                IcpElizaAdapter_is_ready(bridge[2])
                    = IcpDatabaseAdapter_is_ready(bridge[2].inner))
    /\ [][(handle # None /\ handle' # None
            /\ IcpDatabaseAdapter_is_ready(handle'[2]) # IcpDatabaseAdapter_is_ready(handle[2]))
          => last'.op \in {"init", "close", "new", "create_database_adapter"}]_vars
    /\ [][(bridge # None /\ bridge' # None
            /\ IcpElizaAdapter_is_ready(bridge'[2]) # IcpElizaAdapter_is_ready(bridge[2]))
          => last'.op \in {"bridge_init", "bridge_close", "bridge_new"}]_vars

\* the wrapper has just been initialised while the handle is closed, and a
\* memory and a vector record are stored
C19_Witness ==
    /\ last.op = "bridge_init"
    /\ IcpElizaAdapter_is_ready(bridge[2])
    /\ handle # None
    /\ ~IcpDatabaseAdapter_is_ready(handle[2])
    /\ DATA # EmptyMap
    /\ VECTORS # EmptyMap

(***************************************************************************)
(* init(), under the lifecycle specification Spec                          *)
(***************************************************************************)
\* C20 (init): init() - the first, a repeated one, or one after close() -
\* leaves every document and every vector record as it was, and an init() that
\* directly follows an init() changes nothing at all.
C20_InitIdempotent ==
    /\ [][last'.op = "init" => DATA' = DATA /\ VECTORS' = VECTORS]_vars
    /\ [][(last.op = "init" /\ last'.op = "init") =>
            UNCHANGED <<DATA, VECTORS, CACHE, VECTOR_DIM, ADAPTER, COUNTER, bridge,
                        handle, now, epoch, canister>>]_vars

\* init() has returned on a handle whose dimension differs from the default
\* while a document and a vector record are stored
C20_Witness ==
    /\ last.op = "init"
    /\ IcpDatabaseAdapter_is_ready(handle[2])
    /\ VECTOR_DIM # DefaultDimension
    /\ DATA # EmptyMap
    /\ VECTORS # EmptyMap

\* C23 (create_memory is all-or-nothing): a create_memory that returns an
\* error leaves the documents and the vector records as they were.
\* create_memory calls IcpMemoryStorage::set before IcpVectorStorage::add, so
\* a DimensionMismatch is returned with the document already stored.
C23_CreateMemoryAllOrNothing ==
    [][(last'.op = "create_memory" /\ last'.ret[1] = "Err") =>
           (DATA' = DATA /\ VECTORS' = VECTORS)]_vars

\* C24 (the vector record follows the document): after create_memory(d)
\* returns id there is a vector record for id exactly when d carries a
\* non-empty (top-level) embedding, and the record is that embedding.
\* create_memory only ever adds: re-creating an id with a document that has no
\* embedding keeps the vector of the document it replaced.
C24_VectorFollowsDocument ==
    (last.op = "create_memory" /\ last.ret[1] = "Ok") =>
        /\ last.ret[2] \in DOMAIN VECTORS <=> TopLevelEmbedding(last.memory) # <<>>
        /\ last.ret[2] \in DOMAIN VECTORS =>
               VECTORS[last.ret[2]] = TopLevelEmbedding(last.memory)

\* C26 (ensure_embedding_dimension sets the dimension): after
\* ensure_embedding_dimension(d) returns Ok on a handle, the configured
\* dimension of the Vector Index is d.
\* The handle compares d with its own embedding_dimension field and skips
\* IcpVectorStorage::init when they agree, whatever another handle has
\* configured since.
C26_EnsuredDimension ==
    (last.op = "ensure_embedding_dimension" /\ last.ret[1] = "Ok") =>
        VECTOR_DIM = last.dimension

(***************************************************************************)
(* SpecIds: the operations that write the agents, memories, rooms and      *)
(* entities collections, with documents that bring an id, bring none, or   *)
(* (update_agent) bring another one.                                       *)
(***************************************************************************)
IdAgentDocs == {Doc([id |-> Str(a1), name |-> Str(hi)]), Doc([id |-> Str(a2)])}

\* the second patch names an id of its own
IdPatches == {Doc([name |-> Str(<<"a">>)]), Doc([id |-> Str(a2), name |-> Str(hi)])}

IdRoomDocs == {Doc([id |-> Str(r1)]), Doc([name |-> Str(hi)])}

IdEntityDocs == {Doc([id |-> Str(e1), name |-> Str(hi)]), Doc([id |-> JNum(1)])}

IdInputs ==
    { CreateInput(Doc([id |-> Str(m1), roomId |-> Str(r1)]), messages, FALSE),
      CreateInput(Doc([roomId |-> Str(r1)]), messages, FALSE) }

NextIds ==
    \/ CreateDatabaseAdapter(Agents)
    \/ CreateAgent(IdAgentDocs)
    \/ UpdateAgent({a1}, IdPatches)
    \/ DeleteAgent({a1})
    \/ CreateRoom(IdRoomDocs)
    \/ CreateEntity(IdEntityDocs)
    \/ CreateMemory(IdInputs)
    \/ DeleteMemory({m1})
    \/ DeleteRoom({r1})

SpecIds == Init /\ [][NextIds]_vars

\* C30 (document id equals storage key): every document of the agents,
\* memories, rooms and entities collections has an `id` field that is the id
\* it is stored under.
\* update_agent merges every key of the patch, `id` included, into the
\* document it stores back under the id it was called with.
C30_IdEqualsKey ==
    \A key \in DOMAIN DATA :
        parse_key(key)[2][1] \in {COLLECTIONS_AGENTS, COLLECTIONS_MEMORIES,
                                  COLLECTIONS_ROOMS, COLLECTIONS_ENTITIES}
            => get_field(DATA[key], "id") = Some(JStr(parse_key(key)[2][2]))

(***************************************************************************)
(* SpecCalls: canister calls, one at a time.  delete_room and              *)
(* delete_memory run statement by statement, chat waits for its response   *)
(* in the DfinityLLM mode, and the other calls can only start in between.  *)
(***************************************************************************)
Characters ==
    {[name |-> <<"E", "l", "i", "z", "a">>, bio |-> <<"b", "i", "o">>, system |-> None]}

Modes == {ElizaClassic, DfinityLLM}

\* the second message is blank
ChatRequests ==
    { [message |-> hi, user_id |-> Some(e1), room_id |-> Some(r1)],
      [message |-> <<" ">>, user_id |-> None, room_id |-> None],
      [message |-> hi, user_id |-> None, room_id |-> None] }

Responses == {<<"o", "k">>}

CallInputs ==
    { CreateInput(Doc([id |-> Str(m1), roomId |-> Str(r1),
                       embedding |-> Embedding(<<1, 0>>)]), messages, FALSE) }

NextCalls ==
    \/ InitAgent(Characters)
    \/ SetInferenceMode(Modes)
    \/ Chat(ChatRequests, Responses)
    \/ ChatResume(Responses)
    \/ DeleteRoomCall({r1})
    \/ DeleteRoomStep
    \/ DeleteMemoryCall({m1})
    \/ DeleteMemoryStep
    \/ GetRooms
    \/ Idle /\ CreateDatabaseAdapter(Agents)
    \/ Idle /\ EnsureEmbeddingDimension(SearchDims)
    \/ Idle /\ CreateMemory(CallInputs)

SpecCalls == Init /\ [][NextCalls]_vars

\* what the whole operation makes of the maps the running call started with
Completed(c) ==
    IF c.op = "delete_room"
    THEN [data    |-> IcpDatabaseAdapter_delete_room(c.data, c.id),
          vectors |-> c.vectors]
    ELSE IcpDatabaseAdapter_delete_memory(c.data, c.vectors, c.id)

\* C21 (atomicity of non-suspending operations): while a delete_room or a
\* delete_memory is between two of its statements, the only step taken is its
\* own next statement - no other call starts, returns or records a result -
\* and when it returns the maps are what the whole operation makes of the maps
\* it started with; so the first state another call can see after a
\* delete_room(r) has no room document r and no memory or participant of r.
C21_Atomic ==
    /\ [][running # None =>
            \/ /\ running' = Some([running[2] EXCEPT !.pc = @ + 1])
               /\ running[2].pc + 1 < statements(running[2].op)
               /\ last' = last
               /\ calls' = calls
            \/ /\ running' = None
               /\ running[2].pc + 1 = statements(running[2].op)
               /\ last' = [op |-> running[2].op, id |-> running[2].id, ret |-> Ok(Unit)]
               /\ calls' = calls
               /\ DATA' = Completed(running[2]).data
               /\ VECTORS' = Completed(running[2]).vectors]_vars
    /\ [](running = None /\ last.op = "delete_room" /\ last.ret = Ok(Unit) =>
            /\ IcpDatabaseAdapter_get_room(DATA, last.id) = None
            /\ \A d \in Documents(COLLECTIONS_MEMORIES) \cup Documents(COLLECTIONS_PARTICIPANTS) :
                   ~HasRoom(d, last.id))

\* delete_room(r1) has deleted the room document and not yet the memories of
\* the room, while a chat call for that room is waiting for its response
C21_Witness ==
    /\ running # None
    /\ running[2].op = "delete_room"
    /\ running[2].id = r1
    /\ IcpDatabaseAdapter_get_room(running[2].data, r1) # None
    /\ IcpDatabaseAdapter_get_room(DATA, r1) = None
    /\ \E d \in Documents(COLLECTIONS_MEMORIES) : HasRoom(d, r1)
    /\ \E held \in calls : held.room_id = r1

\* C25 (chat tolerates interleaving at its await): when chat returns Ok for
\* room r, the room document r exists and the memory of the user's message and
\* the memory of the response, both created by this call, are in the memories
\* collection with roomId r.
\* chat does not look at the room again after the await: a delete_room(r) that
\* ran in between has removed the room and the user's message, and the response
\* is stored for a room that no longer exists.
C25_ChatTolerant ==
    [][(COUNTER' # COUNTER /\ last'.op = "chat" /\ last'.ret[1] = "Ok") =>
        LET r == last'.ret[2].room_id
            user_message == IcpDatabaseAdapter_get_memory_by_id(DATA', last'.user_message_id)
            response == IcpDatabaseAdapter_get_memory_by_id(DATA', last'.ret[2].message_id)
        IN  /\ IcpDatabaseAdapter_get_room(DATA', r) # None
            /\ user_message # None
            /\ response # None
            /\ user_message # None => HasRoom(user_message[2], r)
            /\ response # None => HasRoom(response[2], r)]_vars

(***************************************************************************)
(* The Vector Index after a change of dimension (under SpecVec)            *)
(***************************************************************************)
\* C31 (search and the configured dimension): a search that succeeds returns
\* only records whose stored vector has the configured dimension, whatever the
\* threshold.
\* cosine_similarity gives 0.0 for vectors of different lengths, and search
\* keeps every score >= threshold: with a threshold <= 0 a record stored under
\* the previous dimension is returned with similarity 0.
C31_SearchDimension ==
    (last.op = "search" /\ last.ret[1] = "Ok") =>
        \A i \in 1..Len(last.ret[2]) :
            Len(VECTORS[last.ret[2][i].id]) = VECTOR_DIM

\* the ids of the records a search for q with threshold t has to consider
Qualifying(q, t) ==
    {id \in DOMAIN VECTORS : cosine_similarity(q, VECTORS[id]) >= t}

\* record a comes before record b in the answer to a search for q
Before(q, a, b) ==
    \/ cosine_similarity(q, VECTORS[a]) > cosine_similarity(q, VECTORS[b])
    \/ /\ cosine_similarity(q, VECTORS[a]) = cosine_similarity(q, VECTORS[b])
       /\ StrLess(a, b)

\* C32 (exact and deterministic search): a search that succeeds returns the
\* first k of all records with similarity >= t in descending similarity, records
\* of equal similarity in ascending id: min(k, number of qualifying records)
\* results, each a qualifying record with its similarity and distance, each
\* before the next and before every qualifying record left out; and a search
\* repeated with the same arguments on the same index returns the same list.
C32_SearchExact ==
    /\ [](last.op = "search" /\ last.ret[1] = "Ok" =>
            LET r == last.ret[2]
                q == last.query
                all == Qualifying(q, last.threshold)
                returned == {r[i].id : i \in 1..Len(r)}
            IN  /\ Len(r) = Min(last.k, Cardinality(all))
                /\ returned \subseteq all
                /\ \A i \in 1..Len(r) :
                       r[i] = VectorSearchResult(r[i].id,
                                                 cosine_similarity(q, VECTORS[r[i].id]))
                /\ \A i, j \in 1..Len(r) : i < j => Before(q, r[i].id, r[j].id)
                /\ \A o \in all \ returned : \A i \in 1..Len(r) : Before(q, r[i].id, o))
    /\ [][(/\ last.op = "search" /\ last'.op = "search"
            /\ last'.query = last.query /\ last'.k = last.k
            /\ last'.threshold = last.threshold) => last'.ret = last.ret]_vars

\* three records of the same similarity to the query pass the threshold and the
\* search for two returns the two with the smaller ids
C32_Witness ==
    /\ last.op = "search" /\ last.ret[1] = "Ok"
    /\ last.k = 2 /\ Len(last.ret[2]) = 2
    /\ Cardinality(Qualifying(last.query, last.threshold)) = 3
    /\ \A a, b \in Qualifying(last.query, last.threshold) :
           cosine_similarity(last.query, VECTORS[a]) = cosine_similarity(last.query, VECTORS[b])
    /\ last.ret[2][1].similarity > 0

(***************************************************************************)
(* update_agent without an agent (under SpecAgent)                         *)
(***************************************************************************)
\* C33 (update of a missing agent): update_agent(id, patch) for an id with no
\* agent document returns Ok(false) and changes no document: none is created
\* for id and the rest of the store is as before.
C33_UpdateMissingAgent ==
    [][(/\ last'.op = "update_agent"
        /\ IcpDatabaseAdapter_get_agent(DATA, last'.agent_id) = None) =>
            /\ last'.ret = Ok(FALSE)
            /\ DATA' = DATA
            /\ VECTORS' = VECTORS
            /\ IcpDatabaseAdapter_get_agent(DATA', last'.agent_id) = None]_vars

\* update_agent(a2, an object) answered false while agent a1 is stored
C33_Witness ==
    /\ last.op = "update_agent"
    /\ last.agent_id = a2
    /\ is_object(last.agent)
    /\ last.ret = Ok(FALSE)
    /\ IcpDatabaseAdapter_get_agent(DATA, a2) = None
    /\ IcpDatabaseAdapter_get_agent(DATA, a1) # None

(***************************************************************************)
(* delete_where and the rest of the store (under SpecStore)                *)
(***************************************************************************)
\* C34 (delete_where removes the matches and nothing else): after
\* delete_where(c, p) a document of collection c that satisfied p when the call
\* started is gone, every other document of c and every document of another
\* collection is stored as before, nothing is added, the Vector Index is
\* untouched, and get_where(c, p) finds nothing.
C34_DeleteWhereFrame ==
    [][last'.op = "delete_where" =>
        LET c == last'.collection
            p == last'.predicate
        IN  /\ \A cc \in StoreCollections, i \in StoreIds :
                   LET before == IcpMemoryStorage_get(DATA, cc, i)
                   IN  IcpMemoryStorage_get(DATA', cc, i) =
                           IF cc = c /\ before # None /\ call(p, before[2])
                           THEN None ELSE before
            /\ DOMAIN DATA' \subseteq DOMAIN DATA
            /\ VECTORS' = VECTORS
            /\ IcpMemoryStorage_get_where(DATA', c, p) = <<>>
            /\ last'.ret = Ok(Unit)]_vars

\* after delete_where(rooms, has_name): a room without a name is still stored,
\* and so is a cache document with a name
C34_Witness ==
    /\ last.op = "delete_where"
    /\ last.collection = COLLECTIONS_ROOMS
    /\ last.predicate = <<"has_name">>
    /\ IcpMemoryStorage_get_all(DATA, COLLECTIONS_ROOMS) # <<>>
    /\ IcpMemoryStorage_get_where(DATA, COLLECTIONS_CACHE, <<"has_name">>) # <<>>

(***************************************************************************)
(* init on an index that holds records (under SpecVec)                     *)
(***************************************************************************)
\* C35 (init changes only the dimension): IcpVectorStorage::init(d) sets the
\* configured dimension to d and leaves every record, those of the previous
\* dimension included, stored with the same vector; the dimension changes in
\* no other way, and add and search succeed exactly for vectors of the
\* configured length.
C35_InitKeepsRecords ==
    [][/\ last'.op = "vector_init" =>
            /\ VECTOR_DIM' = last'.dimension
            /\ VECTORS' = VECTORS
            /\ IcpVectorStorage_size(VECTORS') = IcpVectorStorage_size(VECTORS)
            /\ DATA' = DATA
       /\ VECTOR_DIM' # VECTOR_DIM => last'.op = "vector_init"
       /\ last'.op = "add" =>
            (last'.ret = Ok(Unit) <=> Len(last'.vector) = VECTOR_DIM)
       /\ last'.op = "search" =>
            (last'.ret[1] = "Ok" <=> Len(last'.query) = VECTOR_DIM)]_vars

\* init(3) on an index that holds a record of two components
C35_Witness ==
    /\ last.op = "vector_init"
    /\ last.dimension = 3
    /\ VECTOR_DIM = 3
    /\ \E id \in DOMAIN VECTORS : Len(VECTORS[id]) = 2

(***************************************************************************)
(* SpecRemove: memories with and without a vector record, and              *)
(* IcpVectorStorage::remove called on the index directly                   *)
(***************************************************************************)
\* the last one has no embedding
RemoveInputs ==
    { CreateInput(Doc([id |-> Str(m1), roomId |-> Str(r1), createdAt |-> JNum(100),
                       embedding |-> Embedding(<<1, 0>>)]), messages, FALSE),
      CreateInput(Doc([id |-> Str(m2), roomId |-> Str(r1), createdAt |-> JNum(200),
                       embedding |-> Embedding(<<1, 1>>)]), messages, FALSE),
      CreateInput(Doc([id |-> Str(m3), roomId |-> Str(r2), createdAt |-> JNum(300)]),
                  messages, FALSE) }

RemoveIds == {m1, m2, m3}

RemoveQueries ==
    { GetQuery(None, None, None, None, messages, None, None),
      GetQuery(None, None, Some(r1), None, messages, Some(1), None) }

NextRemove ==
    \/ CreateDatabaseAdapter(Agents)
    \/ EnsureEmbeddingDimension(SearchDims)
    \/ CreateMemory(RemoveInputs)
    \/ VectorRemove(RemoveIds)
    \/ GetMemories(RemoveQueries)

SpecRemove == Init /\ [][NextRemove]_vars

\* C36 (remove touches only the vector record): IcpVectorStorage::remove(id)
\* returns Ok, takes the record of id - and no other - out of the index, and
\* leaves every document where it was: the memory with that id is still returned
\* by get_memory_by_id and get_memories; when the index has no record for id
\* nothing changes at all.
C36_RemoveOnlyVector ==
    [][last'.op = "remove" =>
        /\ last'.ret = Ok(Unit)
        /\ DATA' = DATA
        /\ VECTOR_DIM' = VECTOR_DIM
        /\ DOMAIN VECTORS' = DOMAIN VECTORS \ {last'.id}
        /\ \A k \in DOMAIN VECTORS' : VECTORS'[k] = VECTORS[k]
        /\ last'.id \notin DOMAIN VECTORS => VECTORS' = VECTORS
        /\ IcpDatabaseAdapter_get_memory_by_id(DATA', last'.id) =
               IcpDatabaseAdapter_get_memory_by_id(DATA, last'.id)
        /\ \A q \in RemoveQueries :
               IcpDatabaseAdapter_get_memories(DATA', q) =
                   IcpDatabaseAdapter_get_memories(DATA, q)]_vars

\* remove(m1) has been called: memory m1, stored with an embedding, is still
\* there and has no vector record, while m2 still has its record
C36_Witness ==
    /\ last.op = "remove"
    /\ last.id = m1
    /\ IcpDatabaseAdapter_get_memory_by_id(DATA, m1) # None
    /\ get_field(IcpDatabaseAdapter_get_memory_by_id(DATA, m1)[2], "embedding") # None
    /\ m1 \notin DOMAIN VECTORS
    /\ m2 \in DOMAIN VECTORS

(***************************************************************************)
(* SpecFrame: delete_room on a store that holds rooms, participants and    *)
(* memories of two rooms and of none, an agent, an entity and a cache      *)
(* entry                                                                   *)
(***************************************************************************)
\* the last one names no room
FrameParticipantDocs ==
    { Doc([roomId |-> Str(r1), entityId |-> Str(e1)]),
      Doc([roomId |-> Str(r2), entityId |-> Str(e1)]),
      Doc([entityId |-> Str(e1)]) }

\* the last one names no room
FrameInputs ==
    { CreateInput(Doc([id |-> Str(m1), roomId |-> Str(r1)]), messages, FALSE),
      CreateInput(Doc([id |-> Str(m2), roomId |-> Str(r2)]), messages, FALSE),
      CreateInput(Doc([id |-> Str(m3), text |-> Str(hi)]), facts, FALSE) }

NextFrame ==
    \/ CreateDatabaseAdapter(Agents)
    \/ CreateRoom(RoomDocs)
    \/ StorageSet({COLLECTIONS_PARTICIPANTS}, {p1}, FrameParticipantDocs)
    \/ CreateMemory(FrameInputs)
    \/ CreateAgent({Doc([id |-> Str(a1), name |-> Str(hi)])})
    \/ CreateEntity({Doc([id |-> Str(e1), name |-> Str(hi)])})
    \/ SetCache({<<"a">>}, {JNum(7)})
    \/ DeleteRoom(RoomIds)

SpecFrame == Init /\ [][NextFrame]_vars

\* whether the entry key |-> doc lies in collection c
InCollection(key, c) == starts_with(key, c \o <<":">>)

\* the entries delete_room(r) has no business with
OutsideRoom(key, doc, r) ==
    \/ InCollection(key, COLLECTIONS_ROOMS) /\ key # make_key(COLLECTIONS_ROOMS, r)
    \/ /\ InCollection(key, COLLECTIONS_MEMORIES) \/ InCollection(key, COLLECTIONS_PARTICIPANTS)
       /\ ~HasRoom(doc, r)
    \/ InCollection(key, COLLECTIONS_AGENTS)
    \/ InCollection(key, COLLECTIONS_ENTITIES)
    \/ InCollection(key, COLLECTIONS_CACHE)

\* C37 (delete_room stays inside the room): delete_room(r) leaves unchanged
\* every room document other than r, every memory and participant document
\* whose roomId is not r or that has none, and every agent, entity and cache
\* document; it adds no document.
C37_DeleteRoomFrame ==
    [][last'.op = "delete_room" =>
        /\ \A key \in DOMAIN DATA :
               OutsideRoom(key, DATA[key], last'.id) =>
                   key \in DOMAIN DATA' /\ DATA'[key] = DATA[key]
        /\ DOMAIN DATA' \subseteq DOMAIN DATA]_vars

\* delete_room(r1) found the room, a memory and a participant of it; room r2,
\* a memory of r2, a memory of no room, the agent, the entity and the cache
\* entry are stored
C37_Witness ==
    /\ last.op = "delete_room"
    /\ last.id = r1
    /\ last.found = <<TRUE, 1, 1>>
    /\ IcpDatabaseAdapter_get_room(DATA, r2) # None
    /\ IcpDatabaseAdapter_get_memory_by_id(DATA, m2) # None
    /\ IcpDatabaseAdapter_get_memory_by_id(DATA, m3) # None
    /\ IcpDatabaseAdapter_get_agent(DATA, a1) # None
    /\ IcpDatabaseAdapter_get_entity(DATA, e1) # None
    /\ IcpMemoryStorage_get(DATA, COLLECTIONS_CACHE, <<"a">>) # None

(***************************************************************************)
(* SpecRead: every read of the Collection Store, the Vector Index and the  *)
(* adapter on a store with memories, vector records and cache entries that *)
(* expire                                                                  *)
(***************************************************************************)
ReadInputs ==
    { CreateInput(Doc([id |-> Str(m1), roomId |-> Str(r1), entityId |-> Str(e1),
                       embedding |-> Embedding(<<1, 0>>)]), messages, FALSE),
      CreateInput(Doc([id |-> Str(m2), roomId |-> Str(r1),
                       embedding |-> Embedding(<<1, 1>>)]), messages, FALSE) }

\* expiresAt 100 is before both clock values, 200 lies between them
ReadCacheDocs ==
    { Doc([value |-> JNum(1), expiresAt |-> JNum(100)]),
      Doc([value |-> JNum(2), expiresAt |-> JNum(200)]),
      Doc([value |-> JNum(3)]) }

ReadCollections == {COLLECTIONS_MEMORIES, COLLECTIONS_CACHE}

ReadIds == {m1, <<"a">>}

ReadQueries ==
    { GetQuery(None, None, Some(r1), None, messages, Some(1), None),
      GetQuery(Some(e1), None, None, None, messages, None, None) }

ReadSearches ==
    { SearchQuery(messages, <<1, 0>>, Some(-Scale), Some(1), None, None, None, None),
      SearchQuery(messages, <<1, 1>>, None, None, Some(r1), None, None, None) }

ReadNames ==
    {"get_agent", "get_agents", "get_memory_by_id", "get_room", "get_rooms_by_ids",
     "get_entity", "memory_count", "is_ready", "size"}

NextRead ==
    \/ CreateDatabaseAdapter(Agents)
    \/ EnsureEmbeddingDimension(SearchDims)
    \/ Tick
    \/ CreateMemory(ReadInputs)
    \/ StorageSet({COLLECTIONS_CACHE}, {<<"a">>}, ReadCacheDocs)
    \/ StorageGet(ReadCollections, ReadIds)
    \/ StorageGetAll(ReadCollections)
    \/ StorageGetWhere(ReadCollections, {<<"room_id_is", r1>>})
    \/ StorageCount(ReadCollections, {None})
    \/ VectorSearch({<<1, 0>>}, {MaxK}, {-Scale})
    \/ GetMemories(ReadQueries)
    \/ SearchMemories(ReadSearches)
    \/ AdapterRead(ReadNames, {m1})
    \/ GetCache({<<"a">>})

SpecRead == Init /\ [][NextRead]_vars

ReadOps ==
    ReadNames \cup {"get", "get_all", "get_where", "count", "search", "get_memories",
                    "search_memories"}

\* C38 (reads do not mutate): a read of the Collection Store, the Vector Index
\* or the adapter leaves the documents, the vector records and the configured
\* dimension as they were - the similarity search_memories attaches to a result
\* is in no stored memory - and get_cache changes at most the cache entry it
\* was asked for, and that only by deleting it when it has expired.
C38_ReadsDoNotMutate ==
    [][/\ last'.op \in ReadOps =>
            /\ DATA' = DATA
            /\ VECTORS' = VECTORS
            /\ VECTOR_DIM' = VECTOR_DIM
       /\ last'.op = "search_memories" =>
            \A d \in Documents(COLLECTIONS_MEMORIES) : get_field(d, "similarity") = None
       /\ last'.op = "get_cache" =>
            /\ VECTORS' = VECTORS
            /\ VECTOR_DIM' = VECTOR_DIM
            /\ \A key \in DOMAIN DATA :
                   key # make_key(COLLECTIONS_CACHE, last'.key) =>
                       key \in DOMAIN DATA' /\ DATA'[key] = DATA[key]
            /\ DOMAIN DATA' \subseteq DOMAIN DATA
            /\ \/ DATA' = DATA
               \/ /\ Expired(Entry(DATA, last'.key), now)
                  /\ Entry(DATA', last'.key) = None]_vars

\* get_cache found the entry expired and deleted it; the memories and their
\* vector records are stored
C38_Witness ==
    /\ last.op = "get_cache"
    /\ Expired(last.found, now)
    /\ last.ret = Ok(None)
    /\ Entry(DATA, last.key) = None
    /\ IcpDatabaseAdapter_memory_count(DATA) = 2
    /\ IcpVectorStorage_size(VECTORS) = 2

(***************************************************************************)
(* SpecInit: the entry points that read or write AGENT_STATE, before and   *)
(* after init_agent                                                        *)
(***************************************************************************)
InitCharacters ==
    { [name |-> <<"E", "l", "i", "z", "a">>, bio |-> <<"b", "i", "o">>, system |-> None],
      [name |-> hi, bio |-> <<>>, system |-> Some(hi)] }

\* the last one is no JSON text
MemoryTexts ==
    { to_json(Doc([id |-> Str(m1), roomId |-> Str(r1)])),
      to_json(Doc([roomId |-> Str(r1)])),
      <<Punct("{")>> }

NextInit ==
    \/ InitAgent(InitCharacters)
    \/ UpdateCharacter(InitCharacters)
    \/ GetAgentState
    \/ SetInferenceMode(Modes)
    \/ Chat({[message |-> hi, user_id |-> Some(e1), room_id |-> Some(r1)]}, Responses)
    \/ ChatResume(Responses)
    \/ CreateMemoryCall(MemoryTexts, {messages})
    \/ CreateRoomCall({None, Some(hi)})
    \/ DeleteMemoryCall({m1})
    \/ DeleteMemoryStep
    \/ DeleteRoomCall({r1})
    \/ DeleteRoomStep

SpecInit == Init /\ [][NextInit]_vars

\* the entry points that start with ensure_initialized()? and write state
GuardedOps ==
    {"update_character", "set_inference_mode", "chat", "create_memory", "create_room",
     "delete_memory", "delete_room"}

\* the step is the return of a call of the entry point `name`
Returns(name) == running' = None /\ last'.op = name

\* C39 (init_agent succeeds once): an init_agent on an initialized canister
\* returns Err(AlreadyInitialized) and changes neither the agent state nor a
\* document; the agent state is set only by an init_agent that returns Ok(id),
\* and with that id; once set, the agent state stays set and its agent_id never
\* changes, update_character replacing the character alone; get_agent_state
\* returns the agent state; and before the first init_agent a guarded entry
\* point returns Err(NotInitialized) and changes nothing.
C39_InitOnce ==
    [][/\ (Returns("init_agent") /\ AGENT_STATE # None) =>
            /\ last'.ret = Err("AlreadyInitialized")
            /\ AGENT_STATE' = AGENT_STATE
            /\ DATA' = DATA
            /\ VECTORS' = VECTORS
       /\ (Returns("init_agent") /\ AGENT_STATE = None) =>
            /\ last'.ret[1] = "Ok"
            /\ AGENT_STATE' # None
       /\ (AGENT_STATE = None /\ AGENT_STATE' # None) =>
            /\ Returns("init_agent")
            /\ last'.ret = Ok(AGENT_STATE'[2].agent_id)
       /\ AGENT_STATE # None =>
            /\ AGENT_STATE' # None
            /\ AGENT_STATE'[2].agent_id = AGENT_STATE[2].agent_id
       /\ (Returns("update_character") /\ AGENT_STATE # None) =>
            /\ last'.ret = Ok(Unit)
            /\ AGENT_STATE' = Some([AGENT_STATE[2] EXCEPT !.character = last'.config])
            /\ DATA' = DATA
       /\ Returns("get_agent_state") =>
            last'.ret = AGENT_STATE /\ AGENT_STATE' = AGENT_STATE
       /\ (AGENT_STATE = None /\ \E name \in GuardedOps : Returns(name)) =>
            /\ last'.ret = Err("NotInitialized")
            /\ DATA' = DATA
            /\ VECTORS' = VECTORS
            /\ UNCHANGED <<AGENT_STATE, INFERENCE_MODE, ADAPTER, VECTOR_DIM, COUNTER,
                           running, calls>>]_vars

\* a second init_agent with another character was refused: the agent state
\* has the id and the character of the first one, and one agent document is
\* stored
C39_Witness ==
    /\ last.op = "init_agent"
    /\ last.ret = Err("AlreadyInitialized")
    /\ AGENT_STATE # None
    /\ AGENT_STATE[2].character # last.character
    /\ Len(IcpDatabaseAdapter_get_agents(DATA)) = 1
    /\ IcpDatabaseAdapter_get_agent(DATA, AGENT_STATE[2].agent_id) # None

====
